---- MODULE Spec2Model ----
(***************************************************************************)
(* Model of the rbAI backend core: the behavior engine (DataFusionEngine   *)
(* and CESCalculator) and the pedagogical firewall over the LLM client.    *)
(*                                                                         *)
(* Real-valued quantities are exact rationals <<numerator, denominator>>   *)
(* in lowest terms with a positive denominator.  Binary floating-point     *)
(* rounding of the Python arithmetic is not modelled.                      *)
(***************************************************************************)
EXTENDS Integers, Sequences, FiniteSets, TLC

VARIABLES
    metrics,      \* the metrics record: handed to the behavior engine, or posted to the endpoint
    insights,     \* FusionInsights returned by DataFusionEngine.analyze
    ces_result,   \* the dict returned by CESCalculator.calculate
    chat_mode,    \* "request" (process_request) or "stream" (stream_response)
    context,      \* the ChatContext of the chat request being handled
    chat_pc,      \* where the firewall coroutine stands
    attempt,      \* loop index of the running LLMClientGroq.complete call
    filter_reason,      \* reason returned by ScopePolicy.quick_filter
    intervention_mode,  \* local of process_request / stream_response
    llm_calls,          \* provider requests made so far, in order
    validator_outcome,  \* what the provider finally answered to validate_scope
    completion_outcome, \* what the provider finally answered to the Socratic call
    response,           \* the ChatResponse returned by process_request
    provider_stream,    \* chunks the provider has sent on the open stream
    emitted,            \* chunks yielded by stream_response so far
    provider_replies,   \* how the provider answered each request of llm_calls
    sse,                \* events sent by stream_chat.generate_response so far
    docker,             \* the Docker daemon: containers created and still existing
    execution,          \* the frame of the running DockerExecutor.execute_code call
    test_run,           \* the frame of the running execute_with_tests call
    telemetry_response, \* the TelemetryResponse returned by analyze_telemetry
    _session_code_store,  \* chat.py's module-level dict, key -> stored entry
    run_requests,       \* the /run requests, in the order they were submitted
    chat_read,          \* what the last _get_session_code call returned, and for which pair
    call,               \* a function called on its own: its name and arguments
    returned            \* what that call returned

telemetry_vars == <<metrics, insights, ces_result, telemetry_response>>
chat_vars == <<chat_mode, context, chat_pc, attempt, filter_reason, intervention_mode,
               llm_calls, validator_outcome, completion_outcome, response,
               provider_stream, emitted, provider_replies, sse>>
sandbox_vars == <<docker, execution, test_run>>
store_vars == <<_session_code_store, run_requests, chat_read>>
call_vars == <<call, returned>>

\* Optional values: None is the empty sequence, Some(x) the one-element one.
None == <<>>
Some(x) == <<x>>

(***************************************************************************)
(* Exact rational arithmetic                                               *)
(***************************************************************************)
Abs(x) == IF x < 0 THEN -x ELSE x

RECURSIVE GCD(_, _)
GCD(a, b) == IF b = 0 THEN a ELSE GCD(b, a % b)

R(n, d) ==
    LET s == IF d < 0 THEN -1 ELSE 1
        g == GCD(Abs(n), Abs(d))
    IN  <<(s * n) \div g, (s * d) \div g>>

RInt(i) == <<i, 1>>
Zero == RInt(0)
One == RInt(1)

RAdd(a, b) == R(a[1] * b[2] + b[1] * a[2], a[2] * b[2])
RSub(a, b) == R(a[1] * b[2] - b[1] * a[2], a[2] * b[2])
RMul(a, b) == R(a[1] * b[1], a[2] * b[2])
RDiv(a, b) == R(a[1] * b[2], a[2] * b[1])
RLt(a, b) == a[1] * b[2] < b[1] * a[2]
RLe(a, b) == a[1] * b[2] <= b[1] * a[2]
RMax(a, b) == IF RLt(a, b) THEN b ELSE a
RMin(a, b) == IF RLt(b, a) THEN b ELSE a

RECURSIVE Pow10(_)
Pow10(k) == IF k = 0 THEN 1 ELSE 10 * Pow10(k - 1)

\* Python round(x, ndigits): nearest multiple of 10^-ndigits, ties to even.
Round(x, ndigits) ==
    LET s == x[1] * Pow10(ndigits)
        q == s \div x[2]
        r == s % x[2]
        up == \/ 2 * r > x[2]
              \/ 2 * r = x[2] /\ q % 2 = 1
    IN  R(IF up THEN q + 1 ELSE q, Pow10(ndigits))

(***************************************************************************)
(* DataFusionEngine thresholds                                             *)
(***************************************************************************)
LARGE_INSERTION_THRESHOLD == 30
BURST_TYPING_MIN == 50
BURST_TYPING_MAX == 100
SPAM_KEYSTROKE_MINIMUM == 200
SPAM_EFFICIENCY_THRESHOLD == R(5, 100)
RAPID_ITERATION_THRESHOLD == 10
RAPID_GUESSING_PENALTY == R(8, 10)
REFLECTIVE_PAUSE_MIN == 30
DISENGAGEMENT_THRESHOLD == 120

(***************************************************************************)
(* DataFusionEngine.analyze, 1: provenance and authenticity                *)
(***************************************************************************)
raw_kpm(m) ==
    IF m.duration_minutes > 0
    THEN R(m.total_keystrokes, m.duration_minutes) ELSE Zero

keystroke_to_insertion_ratio(m) ==
    IF m.last_edit_size_chars > 0
    THEN R(m.recent_burst_size_chars, m.last_edit_size_chars) ELSE Zero

\* The large-insertion logic tree: provenance and penalty after it.
LargeInsertionTree(m) ==
    IF m.last_edit_size_chars > LARGE_INSERTION_THRESHOLD
    THEN IF /\ RLt(keystroke_to_insertion_ratio(m), R(2, 10))
            /\ m.focus_violation_count > 0
            /\ m.last_edit_size_chars > 50
         THEN [provenance |-> "SUSPECTED_PASTE", integrity_penalty |-> R(5, 10)]
         ELSE IF RLt(R(8, 10), keystroke_to_insertion_ratio(m))
         THEN [provenance |-> "AUTHENTIC_REFACTORING", integrity_penalty |-> Zero]
         ELSE [provenance |-> "AMBIGUOUS_EDIT", integrity_penalty |-> Zero]
    ELSE [provenance |-> "INCREMENTAL_EDIT", integrity_penalty |-> Zero]

efficiency_ratio(m) ==
    IF m.total_keystrokes > 50
    THEN R(m.net_code_change, m.total_keystrokes) ELSE One

is_burst_typing(m) ==
    /\ BURST_TYPING_MIN <= m.recent_burst_size_chars
    /\ m.recent_burst_size_chars <= BURST_TYPING_MAX

\* The additional paste detection applied to the state st of the first tree.
SecondaryPasteCheck(m, st) ==
    IF /\ m.net_code_change > 200
       /\ RLt(RInt(m.total_keystrokes), RMul(RInt(m.net_code_change), R(3, 10)))
       /\ m.focus_violation_count > 2
       /\ st.provenance \notin {"SUSPECTED_PASTE", "SPAMMING"}
    THEN [provenance |-> "SUSPECTED_PASTE", integrity_penalty |-> R(5, 10)]
    ELSE st

\* The primary spam rule of the if/elif/else that sets effective_kpm.
SpamRule(m) ==
    /\ m.total_keystrokes > SPAM_KEYSTROKE_MINIMUM
    /\ RLt(efficiency_ratio(m), SPAM_EFFICIENCY_THRESHOLD)

\* The burst-typing rule (the elif of the same statement).
BurstRule(m) ==
    /\ is_burst_typing(m)
    /\ RLt(efficiency_ratio(m), R(15, 100))

\* A burst branch that leaves the keystroke rate undiscounted.
SpamCheckBurstUndiscounted(m, st) ==
    IF SpamRule(m)
    THEN [provenance |-> "SPAMMING",
          integrity_penalty |-> st.integrity_penalty,
          effective_kpm |-> Zero]
    ELSE IF BurstRule(m)
    THEN [provenance |-> IF st.provenance = "INCREMENTAL_EDIT"
                         THEN "SPAMMING" ELSE st.provenance,
          integrity_penalty |-> st.integrity_penalty,
          effective_kpm |-> raw_kpm(m)]
    ELSE [provenance |-> st.provenance,
          integrity_penalty |-> st.integrity_penalty,
          effective_kpm |-> raw_kpm(m)]

\* The spam check: sets effective_kpm and may overwrite the provenance.
SpamCheck(m, st) ==
    IF SpamRule(m)
    THEN [provenance |-> "SPAMMING",
          integrity_penalty |-> st.integrity_penalty,
          effective_kpm |-> Zero]
    ELSE IF BurstRule(m)
    THEN [provenance |-> IF st.provenance = "INCREMENTAL_EDIT"
                         THEN "SPAMMING" ELSE st.provenance,
          integrity_penalty |-> st.integrity_penalty,
          effective_kpm |-> RMul(raw_kpm(m), R(5, 10))]
    ELSE [provenance |-> st.provenance,
          integrity_penalty |-> st.integrity_penalty,
          effective_kpm |-> raw_kpm(m)]

ProvenanceTree(m) == SpamCheck(m, SecondaryPasteCheck(m, LargeInsertionTree(m)))

(***************************************************************************)
(* DataFusionEngine.analyze, 2: iteration quality                          *)
(***************************************************************************)
\* The error branch forgets the discount.
IterationTreeErrorUndiscounted(m) ==
    IF m.last_run_interval_seconds < RAPID_ITERATION_THRESHOLD
    THEN IF ~m.is_semantic_change
         THEN [iteration |-> "RAPID_GUESSING",
               effective_runs |-> RMul(RInt(m.total_run_attempts), RAPID_GUESSING_PENALTY)]
         ELSE IF m.last_run_was_error
         THEN [iteration |-> "RAPID_GUESSING",
               effective_runs |-> RInt(m.total_run_attempts)]
         ELSE [iteration |-> "MICRO_ITERATION",
               effective_runs |-> RInt(m.total_run_attempts)]
    ELSE IF m.is_semantic_change
         THEN [iteration |-> "DELIBERATE_DEBUGGING",
               effective_runs |-> RInt(m.total_run_attempts)]
         ELSE [iteration |-> "VERIFICATION_RUN",
               effective_runs |-> RInt(m.total_run_attempts)]

\* An interval of exactly the threshold counts as fast.
IterationTreeThresholdIsFast(m) ==
    IF m.last_run_interval_seconds <= RAPID_ITERATION_THRESHOLD
    THEN IF ~m.is_semantic_change
         THEN [iteration |-> "RAPID_GUESSING",
               effective_runs |-> RMul(RInt(m.total_run_attempts), RAPID_GUESSING_PENALTY)]
         ELSE IF m.last_run_was_error
         THEN [iteration |-> "RAPID_GUESSING",
               effective_runs |-> RMul(RInt(m.total_run_attempts), RAPID_GUESSING_PENALTY)]
         ELSE [iteration |-> "MICRO_ITERATION",
               effective_runs |-> RInt(m.total_run_attempts)]
    ELSE IF m.is_semantic_change
         THEN [iteration |-> "DELIBERATE_DEBUGGING",
               effective_runs |-> RInt(m.total_run_attempts)]
         ELSE [iteration |-> "VERIFICATION_RUN",
               effective_runs |-> RInt(m.total_run_attempts)]

IterationTree(m) ==
    IF m.last_run_interval_seconds < RAPID_ITERATION_THRESHOLD
    THEN IF ~m.is_semantic_change
         THEN [iteration |-> "RAPID_GUESSING",
               effective_runs |-> RMul(RInt(m.total_run_attempts), RAPID_GUESSING_PENALTY)]
         ELSE IF m.last_run_was_error
         THEN [iteration |-> "RAPID_GUESSING",
               effective_runs |-> RMul(RInt(m.total_run_attempts), RAPID_GUESSING_PENALTY)]
         ELSE [iteration |-> "MICRO_ITERATION",
               effective_runs |-> RInt(m.total_run_attempts)]
    ELSE IF m.is_semantic_change
         THEN [iteration |-> "DELIBERATE_DEBUGGING",
               effective_runs |-> RInt(m.total_run_attempts)]
         ELSE [iteration |-> "VERIFICATION_RUN",
               effective_runs |-> RInt(m.total_run_attempts)]

(***************************************************************************)
(* DataFusionEngine.analyze, 3: cognitive state                            *)
(***************************************************************************)
\* The pause is subtracted without the floor at zero.
CognitiveTreeNoFloor(m) ==
    IF m.current_idle_duration > REFLECTIVE_PAUSE_MIN
    THEN IF ~m.is_window_focused
         THEN [cognitive |-> "DISENGAGEMENT",
               adjusted_idle_minutes |-> RInt(m.total_idle_minutes)]
         ELSE IF m.last_run_was_error
         THEN [cognitive |-> "REFLECTIVE_PAUSE",
               adjusted_idle_minutes |->
                   RSub(RInt(m.total_idle_minutes), R(m.current_idle_duration, 60))]
         ELSE [cognitive |-> "PASSIVE_IDLE",
               adjusted_idle_minutes |-> RInt(m.total_idle_minutes)]
    ELSE [cognitive |-> "ACTIVE",
          adjusted_idle_minutes |-> RInt(m.total_idle_minutes)]

\* The pause is subtracted in seconds, not converted to minutes.
CognitiveTreePauseInSeconds(m) ==
    IF m.current_idle_duration > REFLECTIVE_PAUSE_MIN
    THEN IF ~m.is_window_focused
         THEN [cognitive |-> "DISENGAGEMENT",
               adjusted_idle_minutes |-> RInt(m.total_idle_minutes)]
         ELSE IF m.last_run_was_error
         THEN [cognitive |-> "REFLECTIVE_PAUSE",
               adjusted_idle_minutes |->
                   RMax(Zero, RSub(RInt(m.total_idle_minutes),
                                   RInt(m.current_idle_duration)))]
         ELSE [cognitive |-> "PASSIVE_IDLE",
               adjusted_idle_minutes |-> RInt(m.total_idle_minutes)]
    ELSE [cognitive |-> "ACTIVE",
          adjusted_idle_minutes |-> RInt(m.total_idle_minutes)]

CognitiveTree(m) ==
    IF m.current_idle_duration > REFLECTIVE_PAUSE_MIN
    THEN IF ~m.is_window_focused
         THEN [cognitive |-> "DISENGAGEMENT",
               adjusted_idle_minutes |-> RInt(m.total_idle_minutes)]
         ELSE IF m.last_run_was_error
         THEN [cognitive |-> "REFLECTIVE_PAUSE",
               adjusted_idle_minutes |->
                   RMax(Zero, RSub(RInt(m.total_idle_minutes),
                                   R(m.current_idle_duration, 60)))]
         ELSE [cognitive |-> "PASSIVE_IDLE",
               adjusted_idle_minutes |-> RInt(m.total_idle_minutes)]
    ELSE [cognitive |-> "ACTIVE",
          adjusted_idle_minutes |-> RInt(m.total_idle_minutes)]

\* x / duration_minutes, 0 when the duration is not positive.
PerMinute(x, m) ==
    IF m.duration_minutes > 0 THEN RDiv(x, RInt(m.duration_minutes)) ELSE Zero

\* DataFusionEngine.analyze: the FusionInsights for the metrics m.
analyze(m) ==
    LET p == ProvenanceTree(m)
        i == IterationTree(m)
        c == CognitiveTree(m)
    IN  [provenance_state |-> p.provenance,
         iteration_state |-> i.iteration,
         cognitive_state |-> c.cognitive,
         effective_kpm |-> p.effective_kpm,
         effective_ad |-> PerMinute(i.effective_runs, m),
         effective_ir |-> PerMinute(c.adjusted_idle_minutes, m),
         integrity_penalty |-> p.integrity_penalty]

(***************************************************************************)
(* CESCalculator                                                           *)
(***************************************************************************)
MIN_KPM == RInt(5)
MAX_KPM == RInt(24)
MIN_AD == R(5, 100)
MAX_AD == R(50, 100)
MIN_IR == Zero
MAX_IR == R(60, 100)
MIN_FVC == RInt(0)
MAX_FVC == RInt(10)
W_KPM == R(40, 100)
W_AD == R(30, 100)
W_IR == R(20, 100)
W_FVC == R(10, 100)

\* A clamp that lets the value through unchanged.
ClampMissing(x, lo, hi) == x

\* max(lo, min(hi, x)), the clamp idiom of calculate and _normalize.
Clamp(x, lo, hi) == RMax(lo, RMin(hi, x))

_normalize(value, min_val, max_val) ==
    IF RSub(max_val, min_val) = Zero
    THEN Zero
    ELSE Clamp(RDiv(RSub(value, min_val), RSub(max_val, min_val)), Zero, One)

_get_label(score) ==
    IF RLt(R(5, 10), score) THEN "High Engagement"
    ELSE IF RLt(R(2, 10), score) THEN "Moderate Engagement"
    ELSE IF RLt(Zero, score) THEN "Low Engagement"
    ELSE "Disengaged/Suspicious"

\* A score from which only half of the integrity penalty is taken.
final_cesHalfPenalty(m, ins) ==
    LET kpm_norm == _normalize(ins.effective_kpm, MIN_KPM, MAX_KPM)
        ad_norm == _normalize(ins.effective_ad, MIN_AD, MAX_AD)
        ir_norm == _normalize(ins.effective_ir, MIN_IR, MAX_IR)
        fvc_norm == _normalize(RInt(m.focus_violation_count), MIN_FVC, MAX_FVC)
        productive_score == RAdd(RMul(W_KPM, kpm_norm), RMul(W_AD, ad_norm))
        penalty_score == RAdd(RMul(W_IR, ir_norm), RMul(W_FVC, fvc_norm))
    IN  Clamp(RSub(RSub(productive_score, penalty_score),
                   RMul(R(5, 10), ins.integrity_penalty)),
              RInt(-1), One)

\* final_ces of calculate, before rounding.
final_ces(m, ins) ==
    LET kpm_norm == _normalize(ins.effective_kpm, MIN_KPM, MAX_KPM)
        ad_norm == _normalize(ins.effective_ad, MIN_AD, MAX_AD)
        ir_norm == _normalize(ins.effective_ir, MIN_IR, MAX_IR)
        fvc_norm == _normalize(RInt(m.focus_violation_count), MIN_FVC, MAX_FVC)
        productive_score == RAdd(RMul(W_KPM, kpm_norm), RMul(W_AD, ad_norm))
        penalty_score == RAdd(RMul(W_IR, ir_norm), RMul(W_FVC, fvc_norm))
    IN  Clamp(RSub(RSub(productive_score, penalty_score), ins.integrity_penalty),
              RInt(-1), One)

\* CESCalculator.calculate: the fields of the returned dict.
calculate(m, ins) ==
    [kpm |-> Round(ins.effective_kpm, 2),
     ad |-> Round(ins.effective_ad, 4),
     ir |-> Round(ins.effective_ir, 2),
     ces |-> Round(final_ces(m, ins), 4),
     classification |-> _get_label(final_ces(m, ins))]

(***************************************************************************)
(* Text.  A text is a sequence of one-character strings; a fixed block of  *)
(* prose whose wording plays no role is a single symbol in brackets.       *)
(***************************************************************************)
\* The characters of a string literal, as a text.
Chars(str) == [i \in 1..Len(str) |-> SubSeq(str, i, i)]

UpperChars == Chars("ABCDEFGHIJKLMNOPQRSTUVWXYZ")
LowerChars == Chars("abcdefghijklmnopqrstuvwxyz")
Digits == {"0", "1", "2", "3", "4", "5", "6", "7", "8", "9"}
Whitespace == {" ", "\n", "\t", "\r"}

Range(f) == {f[i] : i \in DOMAIN f}

\* str.lower() and str.upper(), character by character.
LowerChar(c) ==
    IF c \in Range(UpperChars)
    THEN LowerChars[CHOOSE i \in DOMAIN UpperChars : UpperChars[i] = c] ELSE c
UpperChar(c) ==
    IF c \in Range(LowerChars)
    THEN UpperChars[CHOOSE i \in DOMAIN LowerChars : LowerChars[i] = c] ELSE c
Lower(s) == [i \in DOMAIN s |-> LowerChar(s[i])]
Upper(s) == [i \in DOMAIN s |-> UpperChar(s[i])]

\* str.strip(): leading and trailing whitespace removed.
RECURSIVE LStrip(_)
LStrip(s) == IF s # <<>> /\ Head(s) \in Whitespace THEN LStrip(Tail(s)) ELSE s
RECURSIVE RStrip(_)
RStrip(s) ==
    IF s # <<>> /\ s[Len(s)] \in Whitespace
    THEN RStrip(SubSeq(s, 1, Len(s) - 1)) ELSE s
Strip(s) == RStrip(LStrip(s))

\* w occurs in s starting at position i.
MatchAt(s, i, w) ==
    /\ i >= 1
    /\ i + Len(w) - 1 <= Len(s)
    /\ \A k \in 1..Len(w) : s[i + k - 1] = w[k]

\* Python's `w in s` for strings.
Contains(s, w) == \E i \in 1..(Len(s) + 1) : MatchAt(s, i, w)

(***************************************************************************)
(* Regular expressions of ScopePolicy.  A pattern is a sequence of         *)
(* elements [t, ws, p]: "b" is \b, "alt" an alternation of the literal     *)
(* words ws, "ws" is \s+, and "opt" the optional group (p)?.  Patterns are *)
(* compiled with re.IGNORECASE: they are matched against the lowercased    *)
(* text.                                                                   *)
(***************************************************************************)
IsWordChar(c) == c \in Range(LowerChars) \cup Range(UpperChars) \cup Digits \cup {"_"}

IsBoundary(s, i) ==
    (i > 1 /\ IsWordChar(s[i - 1])) # (i <= Len(s) /\ IsWordChar(s[i]))

AllWhitespace(s, i, j) == \A k \in i..(j - 1) : s[k] \in Whitespace

B == [t |-> "b", ws |-> {}, p |-> <<>>]
Alt(words) == [t |-> "alt", ws |-> words, p |-> <<>>]
Ws == [t |-> "ws", ws |-> {}, p |-> <<>>]
Opt(pat) == [t |-> "opt", ws |-> {}, p |-> pat]

RECURSIVE MatchFrom(_, _, _)
MatchFrom(s, i, pat) ==
    IF pat = <<>> THEN TRUE
    ELSE LET e == Head(pat)
             rest == Tail(pat)
         IN  CASE e.t = "b" -> IsBoundary(s, i) /\ MatchFrom(s, i, rest)
               [] e.t = "alt" ->
                      \E w \in e.ws : MatchAt(s, i, w) /\ MatchFrom(s, i + Len(w), rest)
               [] e.t = "ws" ->
                      \E j \in (i + 1)..(Len(s) + 1) :
                          AllWhitespace(s, i, j) /\ MatchFrom(s, j, rest)
               [] e.t = "opt" ->
                      MatchFrom(s, i, e.p \o rest) \/ MatchFrom(s, i, rest)

\* pattern.search(text) for a pattern compiled with re.IGNORECASE.
Search(pat, text) ==
    LET s == Lower(text) IN \E i \in 1..(Len(s) + 1) : MatchFrom(s, i, pat)

(***************************************************************************)
(* ScopePolicy                                                             *)
(***************************************************************************)
Words(strs) == {Chars(w) : w \in strs}
Lit(str) == Alt({Chars(str)})
OneOf(strs) == Alt(Words(strs))

LEARNING_KEYWORDS ==
    Words({"how", "why", "what", "explain", "understand", "confused",
           "difference", "between", "mean", "means",
           "hint", "stuck", "help", "approach", "strategy", "think",
           "start", "beginning", "idea",
           "error", "bug", "wrong", "not working", "issue", "problem",
           "debug", "fix", "fail",
           "algorithm", "complexity", "time", "space", "data structure",
           "loop", "recursion", "variable", "function"})

SOLUTION_SEEKING_PATTERNS ==
    {<<B, OneOf({"write", "code", "implement", "complete"}), Ws,
       Opt(<<Lit("the"), Ws>>),
       OneOf({"code", "solution", "function", "program"})>>,
     <<B, Lit("give"), Ws, Lit("me"), Ws, Opt(<<Lit("the"), Ws>>),
       OneOf({"answer", "solution", "code"})>>,
     <<B, Lit("solve"), Ws, OneOf({"this", "the"}), Ws, Lit("problem")>>,
     <<B, Lit("show"), Ws, Lit("me"), Ws, Opt(<<Lit("the"), Ws>>),
       OneOf({"solution", "code", "answer"})>>}

OUT_OF_SCOPE_PATTERNS ==
    {<<B, OneOf({"weather", "news", "sports", "recipe", "movie", "music"}), B>>,
     <<B, OneOf({"hack", "cheat", "steal", "plagiarize", "copy"}), B>>,
     <<B, OneOf({"personal", "address", "phone", "email", "password"}), B>>,
     <<B, OneOf({"medical", "legal", "financial"}), Ws, Lit("advice"), B>>}

\* A quick_filter that looks for solution seeking before out-of-scope words.
quick_filterSolutionFirst(user_query) ==
    IF \E pat \in SOLUTION_SEEKING_PATTERNS : Search(pat, user_query)
    THEN [is_allowed |-> TRUE, reason |-> "BORDERLINE_SOLUTION_SEEKING"]
    ELSE IF \E pat \in OUT_OF_SCOPE_PATTERNS : Search(pat, user_query)
    THEN [is_allowed |-> FALSE, reason |-> "OUT_OF_SCOPE_DOMAIN"]
    ELSE IF \E keyword \in LEARNING_KEYWORDS : Contains(Lower(user_query), keyword)
    THEN [is_allowed |-> TRUE, reason |-> "LEARNING_ORIENTED"]
    ELSE [is_allowed |-> TRUE, reason |-> "NEEDS_LLM_VALIDATION"]

\* ScopePolicy.quick_filter: (is_allowed, reason).
quick_filter(user_query) ==
    IF \E pat \in OUT_OF_SCOPE_PATTERNS : Search(pat, user_query)
    THEN [is_allowed |-> FALSE, reason |-> "OUT_OF_SCOPE_DOMAIN"]
    ELSE IF \E pat \in SOLUTION_SEEKING_PATTERNS : Search(pat, user_query)
    THEN [is_allowed |-> TRUE, reason |-> "BORDERLINE_SOLUTION_SEEKING"]
    ELSE IF \E keyword \in LEARNING_KEYWORDS : Contains(Lower(user_query), keyword)
    THEN [is_allowed |-> TRUE, reason |-> "LEARNING_ORIENTED"]
    ELSE [is_allowed |-> TRUE, reason |-> "NEEDS_LLM_VALIDATION"]

(***************************************************************************)
(* InterventionPolicy and prompt assembly                                  *)
(***************************************************************************)
\* An optional string that was not supplied (None; the empty string is
\* falsy in the same tests).
Absent == ""

INTERVENTION_URGENCY(cognitive_state) ==
    CASE cognitive_state = "ACTIVE" -> 0
      [] cognitive_state = "REFLECTIVE_PAUSE" -> 1
      [] cognitive_state = "PASSIVE_IDLE" -> 2
      [] cognitive_state = "DISENGAGEMENT" -> 3
      [] OTHER -> 0

should_intervene(cognitive_state, iteration_state) ==
    LET urgency == INTERVENTION_URGENCY(cognitive_state)
        raised == IF iteration_state \in {"RAPID_GUESSING", "MICRO_ITERATION"}
                  THEN (IF urgency > 2 THEN urgency ELSE 2) ELSE urgency
    IN  raised >= 2

STATE_ADJUSTMENTS ==
    {"DISENGAGEMENT", "RAPID_GUESSING", "DELIBERATE_DEBUGGING", "SUSPECTED_PASTE",
     "ACTIVE"}

\* build_socratic_prompt: the system prompt is the SOCRATIC_TUTOR_BASE
\* template with its behavioral-context line and the appended adjustment.
build_socratic_prompt(ctx) ==
    LET behavioral_parts ==
            (IF ctx.cognitive_state # Absent
             THEN <<<<"Cognitive", ctx.cognitive_state>>>> ELSE <<>>)
            \o (IF ctx.iteration_state # Absent /\ ctx.iteration_state # "NORMAL"
                THEN <<<<"Iteration", ctx.iteration_state>>>> ELSE <<>>)
            \o (IF /\ ctx.provenance_state # Absent
                   /\ ctx.provenance_state # "INCREMENTAL_EDIT"
                THEN <<<<"Code Pattern", ctx.provenance_state>>>> ELSE <<>>)
        primary_state ==
            IF ctx.provenance_state \in {"SUSPECTED_PASTE", "SPAMMING"}
            THEN ctx.provenance_state
            ELSE IF ctx.iteration_state = "RAPID_GUESSING"
            THEN ctx.iteration_state
            ELSE ctx.cognitive_state
    IN  [system |-> [template |-> "SOCRATIC_TUTOR_BASE",
                     behavioral_context |-> behavioral_parts,
                     adjustment |-> IF primary_state # Absent
                                       /\ primary_state \in STATE_ADJUSTMENTS
                                    THEN primary_state ELSE Absent],
         user |-> ctx.user_query]

OUT_OF_SCOPE_RESPONSE == <<"[OUT_OF_SCOPE_RESPONSE]">>
\* "I'm having trouble processing your request right now. Please try ..."
HAVING_TROUBLE == <<"[HAVING_TROUBLE]">>

(***************************************************************************)
(* LLMClientGroq                                                           *)
(***************************************************************************)
max_retries == 2

TransientErrors == {"RateLimitError", "APITimeoutError"}
FatalErrors == {"APIError", "Exception"}

\* A retry loop that also retries after errors that are not transient.
complete_stepRetriesAll(att, o) ==
    IF o.kind = "ok"
    THEN [status |-> "returned", content |-> o.content, attempt |-> att]
    ELSE IF att # max_retries
    THEN [status |-> "retry", content |-> None, attempt |-> att + 1]
    ELSE [status |-> "raised", content |-> None, attempt |-> att]

\* One pass of the retry loop of complete: the provider answered the
\* request of loop index att with outcome o.
complete_step(att, o) ==
    IF o.kind = "ok"
    THEN [status |-> "returned", content |-> o.content, attempt |-> att]
    ELSE IF o.kind \in TransientErrors /\ att # max_retries
    THEN [status |-> "retry", content |-> None, attempt |-> att + 1]
    ELSE [status |-> "raised", content |-> None, attempt |-> att]

\* A validator that rejects when its completion call fails.
validate_scopeFailClosed(r) ==
    IF r.status = "raised" \/ r.content = None
    THEN FALSE
    ELSE Contains(Upper(Strip(r.content[1])), Chars("IN_SCOPE"))

\* validate_scope, given how its complete call ended: any exception (also
\* the one of calling strip on a missing content) returns True.
validate_scope(r) ==
    IF r.status = "raised" \/ r.content = None
    THEN TRUE
    ELSE Contains(Upper(Strip(r.content[1])), Chars("IN_SCOPE"))

(***************************************************************************)
(* PedagogicalFirewall                                                     *)
(***************************************************************************)
ChatResponse(message, is_allowed, reasoning, intervention_triggered) ==
    [message |-> message, is_allowed |-> is_allowed, reasoning |-> reasoning,
     intervention_triggered |-> intervention_triggered]

ProviderRequest(method, template) == [method |-> method, system |-> template]

\* A gate that looks at the reason only and never rejects.
ScopeGateIgnoresVerdict(f) ==
    IF f.reason = "NEEDS_LLM_VALIDATION" THEN "validate" ELSE "pass"

\* What STEP 1 and STEP 2 do with the verdict f of quick_filter: return the
\* out-of-scope reply, ask the LLM validator, or go on to STEP 3.
ScopeGate(f) ==
    IF ~f.is_allowed THEN "reject"
    ELSE IF f.reason = "NEEDS_LLM_VALIDATION" THEN "validate"
    ELSE "pass"

\* STEP 3 of process_request and stream_response.
InterventionStep(ctx) ==
    IF ctx.cognitive_state # Absent /\ ctx.iteration_state # Absent
    THEN should_intervene(ctx.cognitive_state, ctx.iteration_state)
    ELSE FALSE

\* An out-of-scope exit whose reply is flagged as allowed.
RejectFlaggedAllowed(reasoning) ==
    /\ chat_pc' = "done"
    /\ IF chat_mode = "request"
       THEN /\ response' = Some(ChatResponse(Some(OUT_OF_SCOPE_RESPONSE), TRUE,
                                             reasoning, FALSE))
            /\ emitted' = emitted
       ELSE /\ emitted' = Append(emitted, OUT_OF_SCOPE_RESPONSE)
            /\ response' = response

\* The out-of-scope exit of either entry point.
Reject(reasoning) ==
    /\ chat_pc' = "done"
    /\ IF chat_mode = "request"
       THEN /\ response' = Some(ChatResponse(Some(OUT_OF_SCOPE_RESPONSE), FALSE,
                                             reasoning, FALSE))
            /\ emitted' = emitted
       ELSE /\ emitted' = Append(emitted, OUT_OF_SCOPE_RESPONSE)
            /\ response' = response

\* An except branch that lets the error escape to the caller.
FallbackMissing ==
    /\ chat_pc' = "raised"
    /\ UNCHANGED <<response, emitted>>

\* The except branch of STEP 4.
Fallback ==
    /\ chat_pc' = "done"
    /\ IF chat_mode = "request"
       THEN /\ response' = Some(ChatResponse(Some(HAVING_TROUBLE), TRUE,
                                             "LLM_ERROR", FALSE))
            /\ emitted' = emitted
       ELSE /\ emitted' = Append(emitted, <<"\n", "\n">> \o HAVING_TROUBLE)
            /\ response' = response

\* STEP 3 and the start of STEP 4, run once the scope gates are passed:
\* the prompt is built and the Socratic completion is requested.
PassScopeGates ==
    /\ intervention_mode' = InterventionStep(context)
    /\ attempt' = 0
    /\ IF context.prompt_fault
       THEN Fallback
       ELSE /\ chat_pc' = IF chat_mode = "request" THEN "completing" ELSE "opening"
            /\ UNCHANGED <<response, emitted>>

\* STEP 1 of process_request and stream_response, up to the first await.
quick_filter_step ==
    /\ chat_pc = "new"
    /\ LET f == quick_filter(context.user_query)
       IN  /\ filter_reason' = f.reason
           /\ CASE ScopeGate(f) = "reject" ->
                       /\ Reject(f.reason)
                       /\ UNCHANGED <<attempt, intervention_mode>>
                [] ScopeGate(f) = "validate" ->
                       /\ chat_pc' = "validating"
                       /\ attempt' = 0
                       /\ UNCHANGED <<intervention_mode, response, emitted>>
                [] ScopeGate(f) = "pass" -> PassScopeGates
    /\ UNCHANGED <<chat_mode, context, llm_calls, validator_outcome,
                   completion_outcome, provider_stream>>
    /\ UNCHANGED <<provider_replies, sse>>
    /\ UNCHANGED <<telemetry_vars, sandbox_vars, store_vars, call_vars>>

\* STEP 2: one provider request of the complete call made by validate_scope,
\* answered with outcome o, and what follows up to the next await.
validate_scope_request(o) ==
    /\ chat_pc = "validating"
    /\ llm_calls' = Append(llm_calls, ProviderRequest("complete", "SCOPE_VALIDATOR"))
    /\ LET r == complete_step(attempt, o)
       IN  IF r.status = "retry"
           THEN /\ attempt' = r.attempt
                /\ UNCHANGED <<chat_pc, intervention_mode, validator_outcome,
                               response, emitted>>
           ELSE /\ validator_outcome' = Some(o)
                /\ IF ~validate_scope(r)
                   THEN /\ Reject("LLM_VALIDATION_FAILED")
                        /\ UNCHANGED <<attempt, intervention_mode>>
                   ELSE PassScopeGates
    /\ UNCHANGED <<chat_mode, context, filter_reason, completion_outcome,
                   provider_stream>>
    /\ provider_replies' = Append(provider_replies, o.kind)
    /\ UNCHANGED sse
    /\ UNCHANGED <<telemetry_vars, sandbox_vars, store_vars, call_vars>>

\* STEP 4 of process_request: one provider request of the Socratic complete
\* call, answered with outcome o, and the return that follows.
complete_request(o) ==
    /\ chat_pc = "completing"
    /\ llm_calls' = Append(llm_calls, ProviderRequest("complete", "SOCRATIC_TUTOR_BASE"))
    /\ LET r == complete_step(attempt, o)
       IN  CASE r.status = "retry" ->
                    /\ attempt' = r.attempt
                    /\ UNCHANGED <<chat_pc, completion_outcome, response, emitted>>
             [] r.status = "returned" ->
                    /\ completion_outcome' = Some(o)
                    /\ chat_pc' = "done"
                    /\ response' = Some(ChatResponse(r.content, TRUE, filter_reason,
                                                     intervention_mode))
                    /\ UNCHANGED <<attempt, emitted>>
             [] r.status = "raised" ->
                    /\ completion_outcome' = Some(o)
                    /\ Fallback
                    /\ UNCHANGED attempt
    /\ UNCHANGED <<chat_mode, context, filter_reason, intervention_mode,
                   validator_outcome, provider_stream>>
    /\ provider_replies' = Append(provider_replies, o.kind)
    /\ UNCHANGED sse
    /\ UNCHANGED <<telemetry_vars, sandbox_vars, store_vars, call_vars>>

\* STEP 4 of stream_response: stream_complete requests the stream; the
\* provider accepts (kind "ok") or the request fails.
stream_open(o) ==
    /\ chat_pc = "opening"
    /\ llm_calls' = Append(llm_calls,
                           ProviderRequest("stream_complete", "SOCRATIC_TUTOR_BASE"))
    /\ IF o.kind = "ok"
       THEN /\ chat_pc' = "receiving"
            /\ UNCHANGED <<completion_outcome, response, emitted>>
       ELSE /\ completion_outcome' = Some(o)
            /\ Fallback
    /\ UNCHANGED <<chat_mode, context, attempt, filter_reason, intervention_mode,
                   validator_outcome, provider_stream>>
    /\ provider_replies' = Append(provider_replies, o.kind)
    /\ UNCHANGED sse
    /\ UNCHANGED <<telemetry_vars, sandbox_vars, store_vars, call_vars>>

\* The longest provider stream considered.
MaxChunks == 2

\* A stream_complete that yields every delta that has a content, the empty
\* ones too.
stream_chunkYieldsEmpty(chunk) ==
    /\ chat_pc = "receiving"
    /\ Len(sse) = Len(emitted)
    /\ Len(provider_stream) < MaxChunks
    /\ provider_stream' = Append(provider_stream, chunk)
    /\ emitted' = IF chunk.has_choice /\ chunk.content # None
                  THEN Append(emitted, chunk.content[1]) ELSE emitted
    /\ UNCHANGED <<chat_mode, context, chat_pc, attempt, filter_reason,
                   intervention_mode, llm_calls, validator_outcome,
                   completion_outcome, response>>
    /\ UNCHANGED <<provider_replies, sse>>
    /\ UNCHANGED <<telemetry_vars, sandbox_vars, store_vars, call_vars>>

\* The provider sends a chunk (at most MaxChunks of them); stream_complete
\* yields its delta content when the chunk has a choice and the content is
\* non-empty.
stream_chunk(chunk) ==
    /\ chat_pc = "receiving"
    /\ Len(sse) = Len(emitted)
    /\ Len(provider_stream) < MaxChunks
    /\ provider_stream' = Append(provider_stream, chunk)
    /\ emitted' = IF chunk.has_choice /\ chunk.content # None /\ chunk.content[1] # <<>>
                  THEN Append(emitted, chunk.content[1]) ELSE emitted
    /\ UNCHANGED <<chat_mode, context, chat_pc, attempt, filter_reason,
                   intervention_mode, llm_calls, validator_outcome,
                   completion_outcome, response>>
    /\ UNCHANGED <<provider_replies, sse>>
    /\ UNCHANGED <<telemetry_vars, sandbox_vars, store_vars, call_vars>>

\* The provider stream ends normally.
stream_end ==
    /\ chat_pc = "receiving"
    /\ Len(sse) = Len(emitted)
    /\ chat_pc' = "done"
    /\ completion_outcome' = Some([kind |-> "ok", content |-> None])
    /\ UNCHANGED <<chat_mode, context, attempt, filter_reason, intervention_mode,
                   llm_calls, validator_outcome, response, provider_stream, emitted>>
    /\ UNCHANGED <<provider_replies, sse>>
    /\ UNCHANGED <<telemetry_vars, sandbox_vars, store_vars, call_vars>>

\* The provider stream breaks with error kind k.
stream_fail(k) ==
    /\ chat_pc = "receiving"
    /\ Len(sse) = Len(emitted)
    /\ completion_outcome' = Some([kind |-> k, content |-> None])
    /\ Fallback
    /\ UNCHANGED <<chat_mode, context, attempt, filter_reason, intervention_mode,
                   llm_calls, validator_outcome, provider_stream>>
    /\ UNCHANGED <<provider_replies, sse>>
    /\ UNCHANGED <<telemetry_vars, sandbox_vars, store_vars, call_vars>>

(***************************************************************************)
(* The /api/chat/stream transport: stream_chat.generate_response           *)
(***************************************************************************)
\* json.dumps of one character of a string (the characters the modelled
\* texts are made of: ASCII, of which quote, backslash and newline are
\* escaped).
JsonEscapeChar(c) ==
    CASE c = "\"" -> <<"\\", "\"">>
      [] c = "\\" -> <<"\\", "\\">>
      [] c = "\n" -> <<"\\", "n">>
      [] OTHER -> <<c>>

RECURSIVE JsonEscape(_)
JsonEscape(text) ==
    IF text = <<>> THEN <<>>
    ELSE JsonEscapeChar(Head(text)) \o JsonEscape(Tail(text))

\* f"data: {json.dumps({'content': chunk})}\n\n"
ContentEvent(chunk) ==
    Chars("data: {\"content\": \"") \o JsonEscape(chunk) \o Chars("\"}\n\n")

DONE == Chars("data: [DONE]\n\n")

\* generate_response takes the chunk stream_response yielded and sends it as
\* one event; stream_response is resumed only after that.
generate_response_yield ==
    /\ chat_mode = "stream"
    /\ Len(sse) < Len(emitted)
    /\ sse' = Append(sse, ContentEvent(emitted[Len(sse) + 1]))
    /\ UNCHANGED <<chat_mode, context, chat_pc, attempt, filter_reason,
                   intervention_mode, llm_calls, validator_outcome,
                   completion_outcome, response, provider_stream, emitted,
                   provider_replies>>
    /\ UNCHANGED <<telemetry_vars, sandbox_vars, store_vars, call_vars>>

\* A generate_response that may send the completion signal again.
generate_response_doneRepeats ==
    /\ chat_mode = "stream"
    /\ chat_pc = "done"
    /\ Len(sse) >= Len(emitted)
    /\ Len(sse) <= Len(emitted) + 1
    /\ sse' = Append(sse, DONE)
    /\ UNCHANGED <<chat_mode, context, chat_pc, attempt, filter_reason,
                   intervention_mode, llm_calls, validator_outcome,
                   completion_outcome, response, provider_stream, emitted,
                   provider_replies>>
    /\ UNCHANGED <<telemetry_vars, sandbox_vars, store_vars, call_vars>>

\* stream_response is exhausted: generate_response sends the completion
\* signal and ends.
generate_response_done ==
    /\ chat_mode = "stream"
    /\ chat_pc = "done"
    /\ Len(sse) = Len(emitted)
    /\ sse' = Append(sse, DONE)
    /\ UNCHANGED <<chat_mode, context, chat_pc, attempt, filter_reason,
                   intervention_mode, llm_calls, validator_outcome,
                   completion_outcome, response, provider_stream, emitted,
                   provider_replies>>
    /\ UNCHANGED <<telemetry_vars, sandbox_vars, store_vars, call_vars>>

(***************************************************************************)
(* Chat inputs and provider behaviour                                      *)
(***************************************************************************)
UserQueries ==
    {Chars("what's the weather today?"),
     Chars("Please COPY this"),
     Chars("give me the answer"),
     Chars("why does my loop print nothing?"),
     Chars("hello"),
     Chars("emails")}

ChatContexts ==
    [user_query : UserQueries,
     cognitive_state : {Absent, "ACTIVE", "DISENGAGEMENT"},
     iteration_state : {Absent, "RAPID_GUESSING"},
     provenance_state : {Absent, "SUSPECTED_PASTE"},
     prompt_fault : BOOLEAN]

\* message.content of a completion: missing, or a text.
Contents ==
    {None, Some(Chars("IN_SCOPE")), Some(Chars(" in_scope\n")),
     Some(Chars("OUT_OF_SCOPE")), Some(Chars("Try a loop"))}

Outcomes ==
    {[kind |-> "ok", content |-> c] : c \in Contents}
    \cup {[kind |-> k, content |-> None] : k \in TransientErrors \cup FatalErrors}

OpenOutcomes ==
    {[kind |-> k, content |-> None] : k \in {"ok"} \cup TransientErrors \cup FatalErrors}

Chunks ==
    {[has_choice |-> FALSE, content |-> None]}
    \cup {[has_choice |-> TRUE, content |-> c] :
             c \in {None, Some(<<>>), Some(Chars("Try")),
                    Some(Chars(" \"a\\b\"\n"))}}

\* No execute_code call and no execute_with_tests call is running.
IdleExecution == [pc |-> "idle"]
IdleTestRun == [pc |-> "idle"]

\* The telemetry side while a chat request is handled: the first worked
\* example of the behavior engine, not yet analysed.
IdleMetrics ==
    [duration_minutes |-> 10, total_keystrokes |-> 100,
     total_run_attempts |-> 0, total_idle_minutes |-> 0,
     focus_violation_count |-> 0, net_code_change |-> 10,
     last_edit_size_chars |-> 5, last_run_interval_seconds |-> 10,
     is_semantic_change |-> TRUE, current_idle_duration |-> 5,
     is_window_focused |-> TRUE, last_run_was_error |-> FALSE,
     recent_burst_size_chars |-> 0]

\* The chat side while telemetry is analysed: no request is being handled.
IdleContext ==
    [user_query |-> Chars("hello"), cognitive_state |-> Absent,
     iteration_state |-> Absent, provenance_state |-> Absent,
     prompt_fault |-> FALSE]

\* A chat request arrives at process_request or at stream_response.
ChatInit ==
    /\ chat_mode \in {"request", "stream"}
    /\ context \in ChatContexts
    /\ chat_pc = "new"
    /\ attempt = 0
    /\ filter_reason = Absent
    /\ intervention_mode = FALSE
    /\ llm_calls = <<>>
    /\ validator_outcome = None
    /\ completion_outcome = None
    /\ response = None
    /\ provider_stream = <<>>
    /\ emitted = <<>>
    /\ provider_replies = <<>>
    /\ sse = <<>>
    /\ metrics = IdleMetrics
    /\ insights = None
    /\ ces_result = None
    /\ docker = [created |-> 0, existing |-> {}]
    /\ execution = IdleExecution
    /\ test_run = IdleTestRun
    /\ telemetry_response = None
    /\ _session_code_store = <<>>
    /\ run_requests = <<>>
    /\ chat_read = None
    /\ call = None
    /\ returned = None

ChatNext ==
    \/ quick_filter_step
    \/ \E o \in Outcomes : validate_scope_request(o)
    \/ \E o \in Outcomes : complete_request(o)
    \/ \E o \in OpenOutcomes : stream_open(o)
    \/ \E chunk \in Chunks : stream_chunk(chunk)
    \/ stream_end
    \/ \E k \in TransientErrors \cup FatalErrors : stream_fail(k)
    \/ generate_response_yield
    \/ generate_response_done

(***************************************************************************)
(* Telemetry inputs                                                        *)
(***************************************************************************)
MaxRunAttempts == 3

DurationValues == {0, 10}
KeystrokeValues == {40, 100, 2500}
RunAttemptValues == {0, MaxRunAttempts}
IdleMinuteValues == {0, 2}
FocusViolationValues == {0, 1, 12}
NetCodeChangeValues == {10, 900}
LastEditValues == {5, 40, 60}
BurstValues == {0, 8, 50, 120}
RunIntervalValues == {5, 10}
CurrentIdleValues == {5, 45, 150}

SessionMetrics ==
    [duration_minutes : DurationValues,
     total_keystrokes : KeystrokeValues,
     total_run_attempts : RunAttemptValues,
     total_idle_minutes : IdleMinuteValues,
     focus_violation_count : FocusViolationValues,
     net_code_change : NetCodeChangeValues,
     last_edit_size_chars : LastEditValues,
     last_run_interval_seconds : RunIntervalValues,
     is_semantic_change : BOOLEAN,
     current_idle_duration : CurrentIdleValues,
     is_window_focused : BOOLEAN,
     last_run_was_error : BOOLEAN,
     recent_burst_size_chars : BurstValues]

(***************************************************************************)
(* The behavior engine as its caller drives it: analyze, then calculate    *)
(***************************************************************************)
TelemetryInit ==
    /\ metrics \in SessionMetrics
    /\ insights = None
    /\ ces_result = None
    /\ chat_mode = "request"
    /\ context = IdleContext
    /\ chat_pc = "idle"
    /\ attempt = 0
    /\ filter_reason = Absent
    /\ intervention_mode = FALSE
    /\ llm_calls = <<>>
    /\ validator_outcome = None
    /\ completion_outcome = None
    /\ response = None
    /\ provider_stream = <<>>
    /\ emitted = <<>>
    /\ provider_replies = <<>>
    /\ sse = <<>>
    /\ docker = [created |-> 0, existing |-> {}]
    /\ execution = IdleExecution
    /\ test_run = IdleTestRun
    /\ telemetry_response = None
    /\ _session_code_store = <<>>
    /\ run_requests = <<>>
    /\ chat_read = None
    /\ call = None
    /\ returned = None

Analyze ==
    /\ insights = None
    /\ insights' = Some(analyze(metrics))
    /\ UNCHANGED <<metrics, ces_result, telemetry_response>>
    /\ UNCHANGED <<chat_vars, sandbox_vars, store_vars, call_vars>>

Calculate ==
    /\ insights # None
    /\ ces_result = None
    /\ ces_result' = Some(calculate(metrics, insights[1]))
    /\ UNCHANGED <<metrics, insights, telemetry_response>>
    /\ UNCHANGED <<chat_vars, sandbox_vars, store_vars, call_vars>>

TelemetryNext ==
    \/ Analyze
    \/ Calculate

(***************************************************************************)
(* DockerExecutor.  Time is counted in whole seconds since execute_code    *)
(* read start_time; only the Docker calls take time.                       *)
(***************************************************************************)
\* DockerExecutor.timeout, the limit handed to container.wait.
timeout == 5

ExecutionResult(status, output, error, execution_time, exit_code) ==
    [status |-> status, output |-> output, error |-> error,
     execution_time |-> execution_time, exit_code |-> exit_code,
     test_results |-> <<>>]

\* What the wrapped program does in the container on a given stdin: whether
\* it ends by itself, and then its exit code and what it left on the two
\* streams.  "add" prints the sum of "a,b" and fails on any other input,
\* "print3" prints 3 whatever it reads, "sleep" sleeps ten seconds.
Behaviour(program, stdin) ==
    CASE program = "add" /\ stdin = Chars("1,2") ->
             [exits |-> TRUE, exit_code |-> 0, stdout |-> Chars("3\n"), stderr |-> <<>>]
      [] program = "add" /\ stdin = Chars("5,5") ->
             [exits |-> TRUE, exit_code |-> 0, stdout |-> Chars("10\n"), stderr |-> <<>>]
      [] program = "print3" ->
             [exits |-> TRUE, exit_code |-> 0, stdout |-> Chars("3\n"), stderr |-> <<>>]
      [] program = "sleep" ->
             [exits |-> FALSE, exit_code |-> 137, stdout |-> <<>>, stderr |-> <<>>]
      [] OTHER ->
             [exits |-> TRUE, exit_code |-> 1, stdout |-> <<>>,
              stderr |-> Chars("Runtime Error: ValueError")]

\* execute_code is entered: start_time is read and the code is wrapped.
execute_code(program, stdin) ==
    [pc |-> "run", program |-> program, stdin |-> stdin, elapsed |-> 0,
     container |-> None, exit_code |-> 0, stdout |-> <<>>, stderr |-> <<>>,
     result |-> None]

\* execute_code returns result.
Return(result) == [execution EXCEPT !.pc = "returned", !.result = Some(result)]

\* The three outer except clauses of execute_code, entered with an
\* exception of the given kind when elapsed seconds have passed.
Caught(kind, elapsed) ==
    CASE kind = "ContainerError" ->
             ExecutionResult("error", <<>>, Chars("Container execution failed"),
                             elapsed, 0)
      [] kind = "ImageNotFound" ->
             ExecutionResult("error", <<>>, Chars("Python environment not available"),
                             0, 0)
      [] OTHER ->
             ExecutionResult("error", <<>>, Chars("Unexpected error"), elapsed, 0)

\* The handler of a failed wait once the container is stopped and removed:
\* a timeout result when the limit has passed, else the exception is raised
\* again and caught by the outer clause.
WaitFailed(elapsed) ==
    IF elapsed >= timeout
    THEN ExecutionResult("timeout", <<>>,
                         Chars("Execution exceeded 5 second time limit"), elapsed, 0)
    ELSE Caught("Exception", elapsed)

\* What a failing Docker call raises (ContainerError is raised by run only
\* when it is not detached).
DockerErrors == {"ImageNotFound", "APIError"}

\* client.containers.run(..., detach=True, remove=False), taking d seconds:
\* a new container is created and started, or the call raises.
containers_run(outcome, d) ==
    /\ execution.pc = "run"
    /\ IF outcome = "ok"
       THEN /\ docker' = [created |-> docker.created + 1,
                          existing |-> docker.existing \cup {docker.created + 1}]
            /\ execution' = [execution EXCEPT !.pc = "wait",
                                              !.elapsed = @ + d,
                                              !.container = Some(docker.created + 1)]
       ELSE /\ execution' = [Return(Caught(outcome, execution.elapsed + d))
                                 EXCEPT !.elapsed = @ + d]
            /\ docker' = docker
    /\ UNCHANGED test_run
    /\ UNCHANGED <<telemetry_vars, chat_vars, store_vars, call_vars>>

\* container.wait(timeout=5) returns the exit status after d seconds.
container_wait_returns(d) ==
    /\ execution.pc = "wait"
    /\ Behaviour(execution.program, execution.stdin).exits
    /\ execution' = [execution EXCEPT
                         !.pc = "logs_stdout",
                         !.elapsed = @ + d,
                         !.exit_code =
                             Behaviour(execution.program, execution.stdin).exit_code]
    /\ UNCHANGED <<docker, test_run>>
    /\ UNCHANGED <<telemetry_vars, chat_vars, store_vars, call_vars>>

\* container.wait raises: after the whole limit when the container is
\* still running (kind "timeout"), at once on any other failure.
container_wait_raises(kind) ==
    /\ execution.pc = "wait"
    /\ execution' = [execution EXCEPT
                         !.pc = "stop",
                         !.elapsed = IF kind = "timeout" THEN @ + timeout ELSE @]
    /\ UNCHANGED <<docker, test_run>>
    /\ UNCHANGED <<telemetry_vars, chat_vars, store_vars, call_vars>>

\* container.stop(timeout=0) in the handler of a failed wait.
container_stop(ok) ==
    /\ execution.pc = "stop"
    /\ execution' = IF ok
                    THEN [execution EXCEPT !.pc = "remove_stopped"]
                    ELSE Return(Caught("APIError", execution.elapsed))
    /\ UNCHANGED <<docker, test_run>>
    /\ UNCHANGED <<telemetry_vars, chat_vars, store_vars, call_vars>>

\* container.remove(force=True) in the handler of a failed wait, and the
\* rest of the handler.
container_remove_stopped(ok) ==
    /\ execution.pc = "remove_stopped"
    /\ IF ok
       THEN /\ docker' = [docker EXCEPT !.existing = @ \ {execution.container[1]}]
            /\ execution' = Return(WaitFailed(execution.elapsed))
       ELSE /\ docker' = docker
            /\ execution' = Return(Caught("APIError", execution.elapsed))
    /\ UNCHANGED test_run
    /\ UNCHANGED <<telemetry_vars, chat_vars, store_vars, call_vars>>

\* container.logs(...).decode('utf-8'), first for stdout, then for stderr.
container_logs(ok) ==
    /\ execution.pc \in {"logs_stdout", "logs_stderr"}
    /\ execution' =
           IF ~ok
           THEN Return(Caught("APIError", execution.elapsed))
           ELSE IF execution.pc = "logs_stdout"
           THEN [execution EXCEPT
                     !.pc = "logs_stderr",
                     !.stdout = Behaviour(execution.program, execution.stdin).stdout]
           ELSE [execution EXCEPT
                     !.pc = "remove",
                     !.stderr = Behaviour(execution.program, execution.stdin).stderr]
    /\ UNCHANGED <<docker, test_run>>
    /\ UNCHANGED <<telemetry_vars, chat_vars, store_vars, call_vars>>

\* container.remove(force=True) after the logs are read, taking d seconds,
\* and the return that follows.
container_remove(ok, d) ==
    /\ execution.pc = "remove"
    /\ IF ok
       THEN /\ docker' = [docker EXCEPT !.existing = @ \ {execution.container[1]}]
            /\ execution' =
                   [Return(ExecutionResult(
                               IF execution.exit_code = 0 THEN "success" ELSE "error",
                               execution.stdout, execution.stderr,
                               execution.elapsed + d, execution.exit_code))
                        EXCEPT !.elapsed = @ + d]
       ELSE /\ docker' = docker
            /\ execution' = [Return(Caught("APIError", execution.elapsed + d))
                                 EXCEPT !.elapsed = @ + d]
    /\ UNCHANGED test_run
    /\ UNCHANGED <<telemetry_vars, chat_vars, store_vars, call_vars>>

(***************************************************************************)
(* DockerExecutor.execute_with_tests                                       *)
(***************************************************************************)
\* A record whose passed flag compares the outputs only.
TestRecordIgnoresStatus(i, test_case, result) ==
    LET expected == Strip(test_case.expected_output)
        actual == Strip(result.output)
    IN  [test_number |-> i,
         passed |-> (actual = expected),
         input |-> test_case.input,
         expected_output |-> expected,
         actual_output |-> actual,
         error |-> IF result.error # <<>> THEN Some(result.error) ELSE None]

\* The record execute_with_tests appends for case number i.
TestRecord(i, test_case, result) ==
    LET expected == Strip(test_case.expected_output)
        actual == Strip(result.output)
    IN  [test_number |-> i,
         passed |-> (actual = expected /\ result.status = "success"),
         input |-> test_case.input,
         expected_output |-> expected,
         actual_output |-> actual,
         error |-> IF result.error # <<>> THEN Some(result.error) ELSE None]

\* A loop body in which the newest case alone decides all_passed.
RecordCaseNewestDecides(frame, result) ==
    LET rec == TestRecord(frame.i, frame.test_cases[frame.i], result)
    IN  [frame EXCEPT !.test_results = Append(@, rec),
                      !.all_passed = rec.passed,
                      !.last_result = Some(result),
                      !.i = @ + 1]

\* The loop body of execute_with_tests after execute_code returned result.
RecordCase(frame, result) ==
    LET rec == TestRecord(frame.i, frame.test_cases[frame.i], result)
    IN  [frame EXCEPT !.test_results = Append(@, rec),
                      !.all_passed = IF rec.passed THEN @ ELSE FALSE,
                      !.last_result = Some(result),
                      !.i = @ + 1]

\* What execute_with_tests returns after the loop over a non-empty list.
TestedResult(frame) ==
    [frame.last_result[1] EXCEPT
         !.test_results = frame.test_results,
         !.status = IF frame.all_passed THEN "success" ELSE "failed_tests",
         !.error = IF frame.all_passed THEN <<>> ELSE @]

\* execute_with_tests is entered: the locals before the loop, and the first
\* execute_code call it awaits.
execute_with_tests(program, test_cases) ==
    [pc |-> IF test_cases = <<>> THEN "single_run" ELSE "case_run",
     program |-> program, test_cases |-> test_cases, i |-> 1,
     test_results |-> <<>>, all_passed |-> TRUE, last_result |-> None,
     result |-> None]

\* The execute_code call of a test case has returned: the case is recorded,
\* and the next case is run or the tested result is returned.
test_case_done ==
    /\ test_run.pc = "case_run"
    /\ execution.pc = "returned"
    /\ LET frame == RecordCase(test_run, execution.result[1])
       IN  IF frame.i <= Len(frame.test_cases)
           THEN /\ test_run' = frame
                /\ execution' = execute_code(frame.program,
                                             frame.test_cases[frame.i].input)
           ELSE /\ test_run' = [frame EXCEPT !.pc = "returned",
                                             !.result = Some(TestedResult(frame))]
                /\ execution' = IdleExecution
    /\ UNCHANGED docker
    /\ UNCHANGED <<telemetry_vars, chat_vars, store_vars, call_vars>>

\* The single execute_code call made for an empty list has returned.
single_run_done ==
    /\ test_run.pc = "single_run"
    /\ execution.pc = "returned"
    /\ test_run' = [test_run EXCEPT
                        !.pc = "returned",
                        !.result = Some([execution.result[1] EXCEPT
                                             !.test_results = test_run.test_results])]
    /\ execution' = IdleExecution
    /\ UNCHANGED docker
    /\ UNCHANGED <<telemetry_vars, chat_vars, store_vars, call_vars>>

(***************************************************************************)
(* Sandbox inputs and the Docker daemon's behaviour                        *)
(***************************************************************************)
\* The longest test-case list considered.
MaxTests == 2

Programs == {"add", "print3", "sleep"}

Stdins == {Chars("1,2"), Chars("5,5"), <<>>}

TestCases ==
    {[input |-> Chars("1,2"), expected_output |-> Chars("3")],
     [input |-> Chars("5,5"), expected_output |-> Chars("10\n")],
     [input |-> <<>>, expected_output |-> <<>>]}

TestCaseLists == UNION {[1..n -> TestCases] : n \in 0..MaxTests}

\* Seconds a Docker call that does not fail may take.
RunSeconds == {0, 1}
WaitSeconds == {0, 4}
RemoveSeconds == {0, 1}

\* execute_code is called by itself, or execute_with_tests is called.
SandboxInit ==
    /\ docker = [created |-> 0, existing |-> {}]
    /\ \E program \in Programs :
          \/ /\ test_run = IdleTestRun
             /\ \E stdin \in Stdins : execution = execute_code(program, stdin)
          \/ \E test_cases \in TestCaseLists :
                /\ test_run = execute_with_tests(program, test_cases)
                /\ execution = execute_code(program,
                                            IF test_cases = <<>> THEN <<>>
                                            ELSE test_cases[1].input)
    /\ metrics = IdleMetrics
    /\ insights = None
    /\ ces_result = None
    /\ chat_mode = "request"
    /\ context = IdleContext
    /\ chat_pc = "idle"
    /\ attempt = 0
    /\ filter_reason = Absent
    /\ intervention_mode = FALSE
    /\ llm_calls = <<>>
    /\ validator_outcome = None
    /\ completion_outcome = None
    /\ response = None
    /\ provider_stream = <<>>
    /\ emitted = <<>>
    /\ provider_replies = <<>>
    /\ sse = <<>>
    /\ telemetry_response = None
    /\ _session_code_store = <<>>
    /\ run_requests = <<>>
    /\ chat_read = None
    /\ call = None
    /\ returned = None

SandboxNext ==
    \/ \E outcome \in {"ok"} \cup DockerErrors, d \in RunSeconds :
          containers_run(outcome, d)
    \/ \E d \in WaitSeconds : container_wait_returns(d)
    \/ \E kind \in {"timeout", "APIError"} : container_wait_raises(kind)
    \/ \E ok \in BOOLEAN : container_stop(ok)
    \/ \E ok \in BOOLEAN : container_remove_stopped(ok)
    \/ \E ok \in BOOLEAN : container_logs(ok)
    \/ \E ok \in BOOLEAN, d \in RemoveSeconds : container_remove(ok, d)
    \/ test_case_done
    \/ single_run_done

(***************************************************************************)
(* The telemetry endpoint: POST /api/telemetry/analyze                     *)
(***************************************************************************)
\* The fields of TelemetryRequest that SessionMetrics is built from;
\* session_duration_minutes arrives as duration_minutes.  Any other field
\* of the posted record is dropped when the request is parsed.
TelemetryRequestFields ==
    {"duration_minutes", "total_keystrokes", "total_run_attempts",
     "total_idle_minutes", "focus_violation_count", "net_code_change",
     "last_edit_size_chars", "last_run_interval_seconds", "is_semantic_change",
     "current_idle_duration", "is_window_focused", "last_run_was_error"}

\* Step 1 of analyze_telemetry: the SessionMetrics built from the request;
\* recent_burst_size_chars is not passed and takes its default.
RequestMetrics(posted) ==
    [f \in DOMAIN posted |->
        IF f \in TelemetryRequestFields THEN posted[f] ELSE 0]

\* The .value of a member of ProvenanceState, IterationState or
\* CognitiveState: the label the enum assigns to the member's name.
value(member) ==
    CASE member = "INCREMENTAL_EDIT" -> "Incremental Edit"
      [] member = "AUTHENTIC_REFACTORING" -> "Authentic Refactoring"
      [] member = "AMBIGUOUS_EDIT" -> "Ambiguous Large Edit"
      [] member = "SUSPECTED_PASTE" -> "Suspected External Paste"
      [] member = "SPAMMING" -> "Spamming"
      [] member = "NORMAL" -> "Normal"
      [] member = "DELIBERATE_DEBUGGING" -> "Deliberate Debugging"
      [] member = "VERIFICATION_RUN" -> "Verification Run"
      [] member = "MICRO_ITERATION" -> "Micro-Iteration"
      [] member = "RAPID_GUESSING" -> "Rapid-Fire Guessing"
      [] member = "ACTIVE" -> "Active"
      [] member = "REFLECTIVE_PAUSE" -> "Reflective Pause"
      [] member = "PASSIVE_IDLE" -> "Passive Idle"
      [] member = "DISENGAGEMENT" -> "Disengagement"

TelemetryResponse(m, ins, ces) ==
    [kpm |-> ces.kpm, ad |-> ces.ad, ir |-> ces.ir,
     fvc |-> m.focus_violation_count,
     ces |-> ces.ces, ces_classification |-> ces.classification,
     provenance_state |-> value(ins.provenance_state),
     iteration_state |-> value(ins.iteration_state),
     cognitive_state |-> value(ins.cognitive_state),
     effective_kpm |-> ins.effective_kpm,
     effective_ad |-> ins.effective_ad,
     effective_ir |-> ins.effective_ir,
     integrity_penalty |-> ins.integrity_penalty]

\* The handler, which runs without suspending: metrics is the record the
\* frontend posted.
analyze_telemetry ==
    /\ telemetry_response = None
    /\ LET m == RequestMetrics(metrics)
           fusion_insights == analyze(m)
       IN  telemetry_response' =
               Some(TelemetryResponse(m, fusion_insights, calculate(m, fusion_insights)))
    /\ UNCHANGED <<metrics, insights, ces_result>>
    /\ UNCHANGED <<chat_vars, sandbox_vars, store_vars, call_vars>>

TelemetryEndpointInit ==
    /\ metrics \in SessionMetrics
    /\ insights = None
    /\ ces_result = None
    /\ telemetry_response = None
    /\ chat_mode = "request"
    /\ context = IdleContext
    /\ chat_pc = "idle"
    /\ attempt = 0
    /\ filter_reason = Absent
    /\ intervention_mode = FALSE
    /\ llm_calls = <<>>
    /\ validator_outcome = None
    /\ completion_outcome = None
    /\ response = None
    /\ provider_stream = <<>>
    /\ emitted = <<>>
    /\ provider_replies = <<>>
    /\ sse = <<>>
    /\ docker = [created |-> 0, existing |-> {}]
    /\ execution = IdleExecution
    /\ test_run = IdleTestRun
    /\ _session_code_store = <<>>
    /\ run_requests = <<>>
    /\ chat_read = None
    /\ call = None
    /\ returned = None

TelemetryEndpointNext ==
    \/ analyze_telemetry

(***************************************************************************)
(* The session code store of chat.py, written by the background task that *)
(* run_code schedules and read by the chat endpoints                       *)
(***************************************************************************)
\* key = f"{session_id}:{problem_id}"
StoreKey(session_id, problem_id) == session_id \o <<":">> \o problem_id

\* The body of _get_session_code on the store as it is: no await lies
\* between the lookup and the return.
stored_code(session_id, problem_id) ==
    LET key == StoreKey(session_id, problem_id)
    IN  IF key \in DOMAIN _session_code_store
        THEN Some(_session_code_store[key].code) ELSE None

\* The handler of POST /api/execution/run for request i, on the path where
\* the executor returns a result: it schedules the store task, runs the
\* code with blocking Docker calls, and returns the response.  The store is
\* untouched until the background task runs, after the response was sent.
run_code(i) ==
    /\ i \in 1..Len(run_requests)
    /\ run_requests[i].pc = "submitted"
    /\ run_requests' = [run_requests EXCEPT ![i].pc = "responded"]
    /\ UNCHANGED <<_session_code_store, chat_read>>
    /\ UNCHANGED <<telemetry_vars, chat_vars, sandbox_vars, call_vars>>

\* The background task of request i; the timestamp is the time of the
\* write, counted in writes.
_store_session_code(i) ==
    /\ i \in 1..Len(run_requests)
    /\ run_requests[i].pc = "responded"
    /\ LET r == run_requests[i]
           key == StoreKey(r.session_id, r.problem_id)
           entry == [code |-> r.code,
                     timestamp |-> Cardinality({j \in 1..Len(run_requests) :
                                                   run_requests[j].pc = "finished"}) + 1]
       IN  _session_code_store' =
               [k \in DOMAIN _session_code_store \cup {key} |->
                   IF k = key THEN entry ELSE _session_code_store[k]]
    /\ run_requests' = [run_requests EXCEPT ![i].pc = "finished"]
    /\ UNCHANGED chat_read
    /\ UNCHANGED <<telemetry_vars, chat_vars, sandbox_vars, call_vars>>

\* A chat endpoint reads the code of a pair.
_get_session_code(session_id, problem_id) ==
    /\ chat_read' = Some([session_id |-> session_id, problem_id |-> problem_id,
                          code |-> stored_code(session_id, problem_id)])
    /\ UNCHANGED <<_session_code_store, run_requests>>
    /\ UNCHANGED <<telemetry_vars, chat_vars, sandbox_vars, call_vars>>

\* The most /run requests in flight.
MaxRequests == 2

SessionIds == {Chars("a"), Chars("a:b")}
ProblemIds == {Chars("b:c"), Chars("c")}
Codes == {"print(1)", "print(2)"}

RunRequests ==
    [session_id : SessionIds, problem_id : ProblemIds, code : Codes,
     pc : {"submitted"}]

\* The store is empty and between one and MaxRequests requests have been
\* submitted.
StoreInit ==
    /\ _session_code_store = <<>>
    /\ \E n \in 1..MaxRequests : run_requests \in [1..n -> RunRequests]
    /\ chat_read = None
    /\ metrics = IdleMetrics
    /\ insights = None
    /\ ces_result = None
    /\ telemetry_response = None
    /\ chat_mode = "request"
    /\ context = IdleContext
    /\ chat_pc = "idle"
    /\ attempt = 0
    /\ filter_reason = Absent
    /\ intervention_mode = FALSE
    /\ llm_calls = <<>>
    /\ validator_outcome = None
    /\ completion_outcome = None
    /\ response = None
    /\ provider_stream = <<>>
    /\ emitted = <<>>
    /\ provider_replies = <<>>
    /\ sse = <<>>
    /\ docker = [created |-> 0, existing |-> {}]
    /\ execution = IdleExecution
    /\ test_run = IdleTestRun
    /\ call = None
    /\ returned = None

StoreNext ==
    \/ \E i \in 1..MaxRequests : run_code(i)
    \/ \E i \in 1..MaxRequests : _store_session_code(i)
    \/ \E session_id \in SessionIds, problem_id \in ProblemIds :
          _get_session_code(session_id, problem_id)

(***************************************************************************)
(* build_socratic_prompt called on every combination of behavioral states  *)
(***************************************************************************)
CognitiveStates == {"ACTIVE", "REFLECTIVE_PAUSE", "PASSIVE_IDLE", "DISENGAGEMENT"}
IterationStates ==
    {"NORMAL", "DELIBERATE_DEBUGGING", "VERIFICATION_RUN", "MICRO_ITERATION",
     "RAPID_GUESSING"}
ProvenanceStates ==
    {"INCREMENTAL_EDIT", "AUTHENTIC_REFACTORING", "AMBIGUOUS_EDIT",
     "SUSPECTED_PASTE", "SPAMMING"}

PromptArgs ==
    [user_query : {Chars("why does my loop print nothing?")},
     cognitive_state : {Absent} \cup CognitiveStates,
     iteration_state : {Absent} \cup IterationStates,
     provenance_state : {Absent} \cup ProvenanceStates,
     prompt_fault : {FALSE}]

PromptInit ==
    /\ \E args \in PromptArgs : call = [fn |-> "build_socratic_prompt", args |-> args]
    /\ returned = None
    /\ metrics = IdleMetrics
    /\ insights = None
    /\ ces_result = None
    /\ telemetry_response = None
    /\ chat_mode = "request"
    /\ context = IdleContext
    /\ chat_pc = "idle"
    /\ attempt = 0
    /\ filter_reason = Absent
    /\ intervention_mode = FALSE
    /\ llm_calls = <<>>
    /\ validator_outcome = None
    /\ completion_outcome = None
    /\ response = None
    /\ provider_stream = <<>>
    /\ emitted = <<>>
    /\ provider_replies = <<>>
    /\ sse = <<>>
    /\ docker = [created |-> 0, existing |-> {}]
    /\ execution = IdleExecution
    /\ test_run = IdleTestRun
    /\ _session_code_store = <<>>
    /\ run_requests = <<>>
    /\ chat_read = None

build_socratic_prompt_call ==
    /\ call.fn = "build_socratic_prompt"
    /\ returned = None
    /\ returned' = Some(build_socratic_prompt(call.args))
    /\ UNCHANGED call
    /\ UNCHANGED <<telemetry_vars, chat_vars, sandbox_vars, store_vars>>

PromptNext ==
    \/ build_socratic_prompt_call

(***************************************************************************)
(* ScopePolicy.quick_filter called on queries made of one or two phrases   *)
(***************************************************************************)
Phrases ==
    {Chars("what's the weather today?"), Chars("COPY"), Chars("legal advice"),
     Chars("give me the answer"), Chars("Write the code"),
     Chars("solve this problem"), Chars("why"), Chars("loop"),
     Chars("hello"), Chars("emails"), Chars("thanks")}

FilterQueries ==
    Phrases \cup {a \o <<" ">> \o b : a \in Phrases, b \in Phrases}

ScopeInit ==
    /\ \E user_query \in FilterQueries : call = [fn |-> "quick_filter", args |-> user_query]
    /\ returned = None
    /\ metrics = IdleMetrics
    /\ insights = None
    /\ ces_result = None
    /\ telemetry_response = None
    /\ chat_mode = "request"
    /\ context = IdleContext
    /\ chat_pc = "idle"
    /\ attempt = 0
    /\ filter_reason = Absent
    /\ intervention_mode = FALSE
    /\ llm_calls = <<>>
    /\ validator_outcome = None
    /\ completion_outcome = None
    /\ response = None
    /\ provider_stream = <<>>
    /\ emitted = <<>>
    /\ provider_replies = <<>>
    /\ sse = <<>>
    /\ docker = [created |-> 0, existing |-> {}]
    /\ execution = IdleExecution
    /\ test_run = IdleTestRun
    /\ _session_code_store = <<>>
    /\ run_requests = <<>>
    /\ chat_read = None

quick_filter_call ==
    /\ call.fn = "quick_filter"
    /\ returned = None
    /\ returned' = Some(quick_filter(call.args))
    /\ UNCHANGED call
    /\ UNCHANGED <<telemetry_vars, chat_vars, sandbox_vars, store_vars>>

ScopeNext ==
    \/ quick_filter_call

(***************************************************************************)
(* POST /api/chat/hint: get_hint calls generate_hint, which puts a         *)
(* synthetic query through process_request                                 *)
(***************************************************************************)
RECURSIVE Repeat(_, _)
Repeat(s, n) == IF n = 0 THEN <<>> ELSE s \o Repeat(s, n - 1)

\* current_code of a HintRequest: missing, empty, a short program, a program
\* that copies a list, one that reads an address book, and a program of 210
\* characters whose copy() call lies beyond character 200.
HintCodes ==
    {None, Some(<<>>),
     Some(Chars("print(a + b)")),
     Some(Chars("b = a.copy()\nb.sort()")),
     Some(Chars("phone = book[name]")),
     Some(Repeat(Chars("x = 1\n"), 33) \o Chars("y = x.copy()"))}

HintRequests ==
    [problem_id : {"p1"},
     problem_description : {Chars("Sum two numbers"), Chars("Copy a list")},
     current_code : HintCodes,
     cognitive_state : {Absent, "ACTIVE", "PASSIVE_IDLE"}]

\* The code fence of the query: three grave accents, a character that a
\* string of this language cannot hold and that is no word character.
Fence == <<"GRAVE", "GRAVE", "GRAVE">>

\* The query generate_hint builds; current_code[:200] is the first 200
\* characters of the code.
hint_query(current_code) ==
    IF current_code = None \/ current_code[1] = <<>>
    THEN Chars("I'm stuck and need a hint to get started.")
    ELSE LET code == current_code[1]
             cut == IF Len(code) < 200 THEN Len(code) ELSE 200
         IN  Chars("I'm stuck. Here's my current code:\n") \o Fence \o Chars("\n")
                 \o SubSeq(code, 1, cut)
                 \o Chars("...\n") \o Fence \o Chars("\nWhat should I focus on?")

HintInit ==
    /\ \E request \in HintRequests : call = [fn |-> "get_hint", args |-> request]
    /\ returned = None
    /\ metrics = IdleMetrics
    /\ insights = None
    /\ ces_result = None
    /\ telemetry_response = None
    /\ chat_mode = "request"
    /\ context = IdleContext
    /\ chat_pc = "idle"
    /\ attempt = 0
    /\ filter_reason = Absent
    /\ intervention_mode = FALSE
    /\ llm_calls = <<>>
    /\ validator_outcome = None
    /\ completion_outcome = None
    /\ response = None
    /\ provider_stream = <<>>
    /\ emitted = <<>>
    /\ provider_replies = <<>>
    /\ sse = <<>>
    /\ docker = [created |-> 0, existing |-> {}]
    /\ execution = IdleExecution
    /\ test_run = IdleTestRun
    /\ _session_code_store = <<>>
    /\ run_requests = <<>>
    /\ chat_read = None

\* generate_hint up to its call of process_request.
generate_hint ==
    /\ call.fn = "get_hint"
    /\ chat_pc = "idle"
    /\ context' = [user_query |-> hint_query(call.args.current_code),
                   cognitive_state |-> IF call.args.cognitive_state # Absent
                                       THEN call.args.cognitive_state
                                       ELSE "DISENGAGEMENT",
                   iteration_state |-> Absent,
                   provenance_state |-> Absent,
                   prompt_fault |-> FALSE]
    /\ chat_pc' = "new"
    /\ UNCHANGED <<chat_mode, attempt, filter_reason, intervention_mode, llm_calls,
                   validator_outcome, completion_outcome, response,
                   provider_stream, emitted, provider_replies, sse>>
    /\ UNCHANGED <<telemetry_vars, sandbox_vars, store_vars, call_vars>>

\* process_request has returned: generate_hint returns response.message and
\* get_hint wraps it.
get_hint ==
    /\ call.fn = "get_hint"
    /\ chat_pc = "done"
    /\ returned = None
    /\ returned' = Some(ChatResponse(response[1].message, TRUE, Absent, TRUE))
    /\ UNCHANGED call
    /\ UNCHANGED <<telemetry_vars, chat_vars, sandbox_vars, store_vars>>

\* The synthetic query contains "stuck", so quick_filter never answers
\* NEEDS_LLM_VALIDATION and the validator is not asked.
HintNext ==
    \/ generate_hint
    \/ quick_filter_step
    \/ \E o \in Outcomes : complete_request(o)
    \/ get_hint

vars == <<telemetry_vars, chat_vars, sandbox_vars, store_vars, call_vars>>

\* The behavior engine on every telemetry input.
SpecTelemetry == TelemetryInit /\ [][TelemetryNext]_vars

\* The firewall handling one chat request, plain or streamed.
SpecChat == ChatInit /\ [][ChatNext]_vars

\* The sandbox executor running one execute_code or execute_with_tests call.
SpecSandbox == SandboxInit /\ [][SandboxNext]_vars

\* The telemetry endpoint handling one posted record.
SpecTelemetryEndpoint == TelemetryEndpointInit /\ [][TelemetryEndpointNext]_vars

\* The hint endpoint handling one request.
SpecHint == HintInit /\ [][HintNext]_vars

\* /run requests and chat reads on the session code store.
SpecStore == StoreInit /\ [][StoreNext]_vars

\* build_socratic_prompt on one combination of states.
SpecPrompt == PromptInit /\ [][PromptNext]_vars

\* quick_filter on one query.
SpecScope == ScopeInit /\ [][ScopeNext]_vars

(***************************************************************************)
(* Properties of the behavior engine                                       *)
(***************************************************************************)
\* count / duration, taken as 0 when the duration is 0 (the raw metric).
RawRatio(x, d) == IF d > 0 THEN RDiv(x, RInt(d)) ELSE Zero

Half == R(1, 2)

\* C1: the CES that calculate returns for the insights analyze produced lies
\* in [-1, 1], after the weighted penalties and the integrity penalty have
\* been subtracted.
C1_CesInRange ==
    ces_result # None =>
        /\ RLe(RInt(-1), ces_result[1].ces)
        /\ RLe(ces_result[1].ces, One)

\* A scored session that carries the integrity penalty and whose penalties
\* outweigh its productive score.
C1_Witness ==
    /\ ces_result # None
    /\ insights[1].integrity_penalty = Half
    /\ metrics.focus_violation_count > 0
    /\ RLt(ces_result[1].ces, Zero)

\* C2 as stated: whenever analyze returns SPAMMING, effective_kpm is 0.
C2_SpammingImpliesZeroKpm ==
    (insights # None /\ insights[1].provenance_state = "SPAMMING")
        => insights[1].effective_kpm = Zero

\* C2 amended: whenever analyze returns SPAMMING, effective_kpm is 0 if the
\* primary spam rule matched (more than 200 keystrokes with efficiency below
\* 0.05) and half the raw keystroke rate otherwise (the burst-typing rule
\* set the state).
C2_SpammingKpmByRule ==
    (insights # None /\ insights[1].provenance_state = "SPAMMING") =>
        IF /\ metrics.total_keystrokes > 200
           /\ RLt(R(metrics.net_code_change, metrics.total_keystrokes), R(5, 100))
        THEN insights[1].effective_kpm = Zero
        ELSE insights[1].effective_kpm =
                 RMul(Half, RawRatio(RInt(metrics.total_keystrokes),
                                     metrics.duration_minutes))

\* SPAMMING set by the burst-typing rule, with a nonzero effective rate.
C2_Witness ==
    /\ insights # None
    /\ insights[1].provenance_state = "SPAMMING"
    /\ metrics.total_keystrokes <= 200
    /\ RLt(Zero, insights[1].effective_kpm)

\* C3: integrity_penalty is 0.5 when provenance_state is SUSPECTED_PASTE and
\* 0 for every other provenance state.
C3_PenaltyIffSuspectedPaste ==
    insights # None =>
        insights[1].integrity_penalty =
            IF insights[1].provenance_state = "SUSPECTED_PASTE" THEN Half ELSE Zero

\* C4: for non-negative inputs every effective metric lies between 0 and its
\* raw counterpart (each raw ratio taken as 0 when duration_minutes = 0).
C4_EffectiveWithinRaw ==
    insights # None =>
        LET d == metrics.duration_minutes
            ins == insights[1]
        IN  /\ RLe(Zero, ins.effective_kpm)
            /\ RLe(ins.effective_kpm, RawRatio(RInt(metrics.total_keystrokes), d))
            /\ RLe(Zero, ins.effective_ad)
            /\ RLe(ins.effective_ad, RawRatio(RInt(metrics.total_run_attempts), d))
            /\ RLe(Zero, ins.effective_ir)
            /\ RLe(ins.effective_ir, RawRatio(RInt(metrics.total_idle_minutes), d))

\* All three adjustments applied at once, each strictly below its raw value.
C4_Witness ==
    /\ insights # None
    /\ insights[1].cognitive_state = "REFLECTIVE_PAUSE"
    /\ insights[1].iteration_state = "RAPID_GUESSING"
    /\ RLt(insights[1].effective_kpm,
           RawRatio(RInt(metrics.total_keystrokes), metrics.duration_minutes))
    /\ RLt(insights[1].effective_ad,
           RawRatio(RInt(metrics.total_run_attempts), metrics.duration_minutes))
    /\ RLt(insights[1].effective_ir,
           RawRatio(RInt(metrics.total_idle_minutes), metrics.duration_minutes))

\* C5: effective_ad is 0.8 * (total_run_attempts / duration_minutes) when
\* iteration_state is RAPID_GUESSING and the undiscounted ratio for every
\* other iteration state (0 in both cases when duration_minutes = 0).
C5_EffectiveAd ==
    insights # None =>
        LET raw_ad == RawRatio(RInt(metrics.total_run_attempts),
                               metrics.duration_minutes)
        IN  insights[1].effective_ad =
                IF insights[1].iteration_state = "RAPID_GUESSING"
                THEN RMul(R(8, 10), raw_ad) ELSE raw_ad

\* RAPID_GUESSING reached through the error branch (a semantic change after
\* a failed run), with runs to discount.
C5_Witness ==
    /\ insights # None
    /\ insights[1].iteration_state = "RAPID_GUESSING"
    /\ metrics.is_semantic_change
    /\ metrics.last_run_was_error
    /\ RLt(Zero, insights[1].effective_ad)

\* C6: in REFLECTIVE_PAUSE effective_ir is
\* max(0, total_idle_minutes - current_idle_duration/60) / duration_minutes
\* (0 when the duration is 0), which is at most the raw idle ratio; in every
\* other cognitive state effective_ir equals the raw idle ratio.
C6_EffectiveIr ==
    insights # None =>
        LET d == metrics.duration_minutes
            raw_ir == RawRatio(RInt(metrics.total_idle_minutes), d)
            pause == R(metrics.current_idle_duration, 60)
            kept == RMax(Zero, RSub(RInt(metrics.total_idle_minutes), pause))
        IN  IF insights[1].cognitive_state = "REFLECTIVE_PAUSE"
            THEN /\ insights[1].effective_ir = RawRatio(kept, d)
                 /\ RLe(insights[1].effective_ir, raw_ir)
            ELSE insights[1].effective_ir = raw_ir

\* A reflective pause shorter than the accumulated idle time: part of the
\* idle ratio remains.
C6_Witness ==
    /\ insights # None
    /\ insights[1].cognitive_state = "REFLECTIVE_PAUSE"
    /\ RLt(Zero, insights[1].effective_ir)
    /\ RLt(insights[1].effective_ir,
           RawRatio(RInt(metrics.total_idle_minutes), metrics.duration_minutes))

(***************************************************************************)
(* Properties of the pedagogical firewall                                  *)
(***************************************************************************)
SocraticRequests ==
    {i \in DOMAIN llm_calls : llm_calls[i].system = "SOCRATIC_TUTOR_BASE"}

FallbackResponse == ChatResponse(Some(HAVING_TROUBLE), TRUE, "LLM_ERROR", FALSE)

\* The verdict of quick_filter on each query a chat request can carry.
FilterVerdicts == [user_query \in UserQueries |-> quick_filter(user_query)]

\* C7: when quick_filter rejects the query with OUT_OF_SCOPE_DOMAIN,
\* process_request returns the canned out-of-scope text with
\* is_allowed = false, and no LLM call is made at any point of the request.
C7_OutOfScopeNoLlm ==
    (/\ chat_mode = "request"
     /\ FilterVerdicts[context.user_query].reason = "OUT_OF_SCOPE_DOMAIN")
        => /\ llm_calls = <<>>
           /\ chat_pc \in {"new", "done"}
           /\ chat_pc = "done" =>
                  /\ response # None
                  /\ response[1].message = Some(OUT_OF_SCOPE_RESPONSE)
                  /\ ~response[1].is_allowed

\* A request rejected by the fast path although its query also contains a
\* learning keyword.
C7_Witness ==
    /\ chat_mode = "request"
    /\ chat_pc = "done"
    /\ filter_reason = "OUT_OF_SCOPE_DOMAIN"
    /\ Contains(Lower(context.user_query), Chars("what"))
    /\ response # None

\* C8 as stated: every response with is_allowed = true carries the text of
\* a successful LLM completion made with the Socratic system prompt.
C8_AllowedOnlyLlmText ==
    (response # None /\ response[1].is_allowed) =>
        /\ completion_outcome # None
        /\ completion_outcome[1].kind = "ok"
        /\ response[1].message = completion_outcome[1].content
        /\ SocraticRequests # {}

\* C8 amended: a response with is_allowed = true carries either the text of
\* a successful LLM completion made with the Socratic system prompt, or,
\* when prompt building or that completion failed, the fixed fallback text
\* with reasoning LLM_ERROR; it never carries any other text.
C8_AllowedLlmTextOrFallback ==
    (response # None /\ response[1].is_allowed) =>
        \/ /\ completion_outcome # None
           /\ completion_outcome[1].kind = "ok"
           /\ response[1].message = completion_outcome[1].content
           /\ SocraticRequests # {}
        \/ /\ response[1] = FallbackResponse
           /\ \/ context.prompt_fault
              \/ completion_outcome # None /\ completion_outcome[1].kind # "ok"

\* An allowed response that carries the completion text of a request that
\* first went through the LLM validator.
C8_Witness ==
    /\ response # None
    /\ response[1].is_allowed
    /\ filter_reason = "NEEDS_LLM_VALIDATION"
    /\ completion_outcome # None
    /\ completion_outcome[1].kind = "ok"
    /\ response[1].message = Some(Chars("Try a loop"))

\* C9: process_request never raises because of the LLM; whenever prompt
\* building or the Socratic complete call fails, it returns the fixed
\* fallback text with is_allowed = true and reasoning LLM_ERROR.
C9_LlmFailureFallsBack ==
    chat_mode = "request" =>
        /\ chat_pc # "raised"
        /\ chat_pc = "done" => response # None
        /\ (completion_outcome # None /\ completion_outcome[1].kind # "ok")
               => response = Some(FallbackResponse)
        /\ (context.prompt_fault /\ response # None
                /\ response[1].reasoning \notin {"OUT_OF_SCOPE_DOMAIN",
                                                 "LLM_VALIDATION_FAILED"})
               => response = Some(FallbackResponse)

\* The completion gave up on a rate limit after all its retries.
C9_Witness ==
    /\ chat_mode = "request"
    /\ chat_pc = "done"
    /\ completion_outcome # None
    /\ completion_outcome[1].kind = "RateLimitError"
    /\ Cardinality(SocraticRequests) = max_retries + 1
    /\ response = Some(FallbackResponse)

\* The request was answered with the out-of-scope text.
RejectedOutOfScope ==
    IF chat_mode = "request"
    THEN response # None /\ ~response[1].is_allowed
                         /\ response[1].message = Some(OUT_OF_SCOPE_RESPONSE)
    ELSE emitted # <<>> /\ emitted[1] = OUT_OF_SCOPE_RESPONSE

\* C10: scope validation fails open.  When the quick filter asked for LLM
\* validation and the validator call ended in an exception, the request is
\* not rejected and goes on to the Socratic completion; it is rejected with
\* the out-of-scope text exactly when the validator answered with a reply
\* that does not contain IN_SCOPE.  Both for process_request and for
\* stream_response.
C10_ValidationFailsOpen ==
    (filter_reason = "NEEDS_LLM_VALIDATION" /\ validator_outcome # None) =>
        LET o == validator_outcome[1]
            answered_out ==
                /\ o.kind = "ok"
                /\ o.content # None
                /\ ~Contains(Upper(Strip(o.content[1])), Chars("IN_SCOPE"))
        IN  /\ RejectedOutOfScope <=> answered_out
            /\ (~answered_out /\ ~context.prompt_fault) =>
                   \/ chat_pc \in {"completing", "opening"}
                   \/ SocraticRequests # {}

\* A streamed request whose validator timed out on every attempt and whose
\* Socratic stream is open all the same.
C10_Witness ==
    /\ chat_mode = "stream"
    /\ validator_outcome # None
    /\ validator_outcome[1].kind = "APITimeoutError"
    /\ Len(llm_calls) = max_retries + 2
    /\ chat_pc = "receiving"

(***************************************************************************)
(* Properties of the sandbox executor                                      *)
(***************************************************************************)
\* The result execute_code has just returned.
Returned == execution.pc = "returned"

\* C11: execute_code returns status timeout if and only if the measured
\* execution_time is at least the 5-second limit, and every timeout result
\* has empty output.
C11_TimeoutIffElapsed ==
    Returned =>
        LET result == execution.result[1]
        IN  /\ (result.status = "timeout") <=> (result.execution_time >= timeout)
            /\ result.status = "timeout" => result.output = <<>>

\* C12: every container execute_code created has been removed by the time
\* it returns, on every path.
C12_ContainersRemoved ==
    Returned => docker.existing = {}

\* C13: for every test-case list, the empty one included, the status
\* returned by execute_with_tests is success if and only if every record of
\* test_results has passed = true.
C13_SuccessIffAllPassed ==
    test_run.pc = "returned" =>
        LET result == test_run.result[1]
        IN  (result.status = "success") <=>
                (\A k \in 1..Len(result.test_results) : result.test_results[k].passed)

\* C13 amended: for a non-empty list the status is success if and only if
\* every record has passed = true, and failed_tests otherwise; for the empty
\* list test_results is empty and the status is that of the single run,
\* success only when its exit code is 0.
C13_SuccessIffAllPassedNonEmpty ==
    test_run.pc = "returned" =>
        LET result == test_run.result[1]
            all == \A k \in 1..Len(result.test_results) : result.test_results[k].passed
        IN  IF test_run.test_cases # <<>>
            THEN /\ Len(result.test_results) = Len(test_run.test_cases)
                 /\ result.status = IF all THEN "success" ELSE "failed_tests"
            ELSE /\ result.test_results = <<>>
                 /\ result.status \in {"success", "error", "timeout"}
                 /\ result.status = "success" => result.exit_code = 0

\* Two cases were run, the first failed and the second passed.
C13_Witness ==
    /\ test_run.pc = "returned"
    /\ Len(test_run.result[1].test_results) = 2
    /\ ~test_run.result[1].test_results[1].passed
    /\ test_run.result[1].test_results[2].passed
    /\ test_run.result[1].status = "failed_tests"

(***************************************************************************)
(* Properties of the streaming chat transport and of the LLM client        *)
(***************************************************************************)
\* The client's reading of a JSON string body: each backslash escape gives
\* the character it stands for.
RECURSIVE JsonUnescape(_)
JsonUnescape(text) ==
    IF text = <<>> THEN <<>>
    ELSE IF Head(text) = "\\" /\ Len(text) >= 2
    THEN <<IF text[2] = "n" THEN "\n" ELSE text[2]>>
             \o JsonUnescape(SubSeq(text, 3, Len(text)))
    ELSE <<Head(text)>> \o JsonUnescape(Tail(text))

\* The content a client reads from a content event.
EventContent(event) ==
    JsonUnescape(SubSeq(event, Len(Chars("data: {\"content\": \"")) + 1,
                        Len(event) - Len(Chars("\"}\n\n"))))

RECURSIVE Concat(_)
Concat(texts) ==
    IF texts = <<>> THEN <<>> ELSE Head(texts) \o Concat(Tail(texts))

HasDelta(chunk) ==
    chunk.has_choice /\ chunk.content # None /\ chunk.content[1] # <<>>

\* The non-empty content deltas the provider has sent, in arrival order.
ProviderDeltas ==
    LET with == SelectSeq(provider_stream, HasDelta)
    IN  [i \in 1..Len(with) |-> with[i].content[1]]

\* A streamed response that passed the gates, whose provider stream ended
\* without error, and whose last event has been sent.
StreamedToEnd ==
    /\ chat_mode = "stream"
    /\ completion_outcome = Some([kind |-> "ok", content |-> None])
    /\ sse # <<>>
    /\ sse[Len(sse)] = DONE

\* C14: in a streaming response that passes the scope gates and whose
\* provider stream ends without error, the content events sent before [DONE]
\* carry exactly the provider's non-empty content deltas, each once and in
\* arrival order, so their concatenation is the provider's completion text.
C14_StreamedTextIsProviderText ==
    StreamedToEnd =>
        LET events == SubSeq(sse, 1, Len(sse) - 1)
            contents == [i \in 1..Len(events) |-> EventContent(events[i])]
        IN  /\ contents = ProviderDeltas
            /\ \A i \in 1..Len(events) : events[i] # DONE
            /\ Concat(contents) = Concat(ProviderDeltas)

\* Two deltas were streamed, the second with characters JSON escapes.
C14_Witness ==
    /\ StreamedToEnd
    /\ Len(ProviderDeltas) = 2
    /\ ProviderDeltas[1] = Chars("Try")
    /\ ProviderDeltas[2] = Chars(" \"a\\b\"\n")
    /\ Len(sse) = 3

\* The replies the provider gave to the requests of one complete call, in
\* order; req is the request the call repeats.
RepliesTo(req) ==
    LET exchanges == [i \in 1..Len(llm_calls) |-> <<llm_calls[i], provider_replies[i]>>]
        IsReq(x) == x[1] = req
        mine == SelectSeq(exchanges, IsReq)
    IN  [i \in 1..Len(mine) |-> mine[i][2]]

\* One complete call seen from outside: the replies to its requests so far,
\* whether it is still running, and (once over) the provider outcome its
\* caller got back, as a return value or as the cause of the raise.
CompleteCallInOrder(replies, running, outcome) ==
    /\ Len(replies) <= max_retries + 1
    /\ \A i \in 1..(Len(replies) - 1) : replies[i] \in TransientErrors
    /\ running =>
          /\ Len(replies) <= max_retries
          /\ replies # <<>> => replies[Len(replies)] \in TransientErrors
          /\ Len(replies) = attempt
          /\ outcome = None
    /\ (~running /\ replies # <<>>) =>
          /\ outcome # None
          /\ outcome[1].kind = replies[Len(replies)]
          /\ replies[Len(replies)] \in TransientErrors => Len(replies) = max_retries + 1

\* A step that leaves a complete call running is one failed request: the
\* loop index goes up by one and stays within max_retries.
CompleteCallAdvances ==
    (chat_pc \in {"validating", "completing"} /\ chat_pc' = chat_pc /\ vars' # vars)
        => (attempt' = attempt + 1 /\ attempt' <= max_retries)

\* C15: one complete call makes at most max_retries + 1 = 3 provider
\* requests, asks again only after a rate-limit or timeout error, stops at
\* the first successful response, stops at once on any other error, and ends
\* (every step of a running call uses up one of the three loop indices).
C15_CompleteRetriesTransientOnly ==
    /\ [](/\ Len(provider_replies) = Len(llm_calls)
          /\ CompleteCallInOrder(
                 RepliesTo(ProviderRequest("complete", "SCOPE_VALIDATOR")),
                 chat_pc = "validating", validator_outcome)
          /\ CompleteCallInOrder(
                 RepliesTo(ProviderRequest("complete", "SOCRATIC_TUTOR_BASE")),
                 chat_pc = "completing", completion_outcome))
    /\ [][CompleteCallAdvances]_vars

\* A Socratic completion that succeeded at the third request, after a
\* rate-limit error and a timeout.
C15_Witness ==
    /\ RepliesTo(ProviderRequest("complete", "SOCRATIC_TUTOR_BASE"))
           = <<"RateLimitError", "APITimeoutError", "ok">>
    /\ chat_pc = "done"
    /\ response # None
    /\ response[1].is_allowed
    /\ response[1].message # HAVING_TROUBLE

\* The intervention policy read as a rule on the supplied context.
PolicyIntervenes(ctx) ==
    \/ ctx.cognitive_state \in {"PASSIVE_IDLE", "DISENGAGEMENT"}
    \/ ctx.iteration_state \in {"RAPID_GUESSING", "MICRO_ITERATION"}

\* C16: a request that passes the scope gates and is answered by the LLM
\* gets intervention_triggered = the intervention policy applied to the
\* behavioral context supplied, also when only one of cognitive_state and
\* iteration_state is supplied.
C16_InterventionFollowsPolicy ==
    (/\ chat_mode = "request"
     /\ response # None
     /\ response[1].is_allowed
     /\ completion_outcome # None
     /\ completion_outcome[1].kind = "ok")
        => response[1].intervention_triggered = PolicyIntervenes(context)

(***************************************************************************)
(* Properties of the session code store                                    *)
(***************************************************************************)
\* The codes of the finished /run requests made for exactly this pair.
WrittenUnder(session_id, problem_id) ==
    {run_requests[i].code :
        i \in {j \in 1..Len(run_requests) :
                  /\ run_requests[j].pc = "finished"
                  /\ run_requests[j].session_id = session_id
                  /\ run_requests[j].problem_id = problem_id}}

\* C17: the store is keyed by the pair (session_id, problem_id): what is
\* read under a pair is code that was written under exactly that pair, and
\* nothing if nothing was written under it, so a write under one pair never
\* changes what is read under another.
C17_StoreKeyedByPair ==
    \A session_id \in SessionIds, problem_id \in ProblemIds :
        LET code == stored_code(session_id, problem_id)
            written == WrittenUnder(session_id, problem_id)
        IN  /\ code = None <=> written = {}
            /\ code # None => code[1] \in written

\* C18: once all /run requests for one pair have finished, however their
\* handlers and background writes interleaved, the store holds the code of
\* the request submitted last.
C18_StoreHoldsLastSubmitted ==
    LET last == run_requests[Len(run_requests)]
    IN  (/\ run_requests # <<>>
         /\ \A i \in 1..Len(run_requests) :
               /\ run_requests[i].pc = "finished"
               /\ run_requests[i].session_id = last.session_id
               /\ run_requests[i].problem_id = last.problem_id)
            => stored_code(last.session_id, last.problem_id) = Some(last.code)

(***************************************************************************)
(* Properties of the telemetry endpoint                                    *)
(***************************************************************************)
\* C19: the kpm, ad and ir fields of the returned record are the raw
\* metrics count / duration (in the rounding of the record: 2, 4 and 2
\* decimals), whatever the fusion adjustments are.
C19_ResponseReportsRawMetrics ==
    telemetry_response # None =>
        LET r == telemetry_response[1]
        IN  /\ r.kpm = Round(RawRatio(RInt(metrics.total_keystrokes),
                                      metrics.duration_minutes), 2)
            /\ r.ad = Round(RawRatio(RInt(metrics.total_run_attempts),
                                     metrics.duration_minutes), 4)
            /\ r.ir = Round(RawRatio(RInt(metrics.total_idle_minutes),
                                     metrics.duration_minutes), 2)

\* C20: the returned record is the one obtained by applying analyze and
\* calculate to the full posted record, recent_burst_size_chars included.
C20_EndpointUsesFullRecord ==
    telemetry_response # None =>
        LET ins == analyze(metrics)
        IN  telemetry_response[1]
                = TelemetryResponse(metrics, ins, calculate(metrics, ins))

(***************************************************************************)
(* Properties of the end of a streamed response                            *)
(***************************************************************************)
DoneSent == sse # <<>> /\ sse[Len(sse)] = DONE

\* The stream ended at a scope gate: nothing was asked of the tutor and the
\* prompt was not at fault.
StreamRejected ==
    chat_pc = "done" /\ SocraticRequests = {} /\ ~context.prompt_fault

\* The provider accepted the stream and then broke it.
StreamBroken ==
    /\ completion_outcome # None
    /\ completion_outcome[1].kind # "ok"
    /\ provider_replies # <<>>
    /\ provider_replies[Len(provider_replies)] = "ok"

\* The content events of what stream_response has yielded.
EventsOf(chunks) == [i \in 1..Len(chunks) |-> ContentEvent(chunks[i])]

StreamEndsInOrder ==
    chat_mode = "stream" =>
        /\ \A i \in 1..(Len(sse) - 1) : sse[i] # DONE
        /\ DoneSent =>
              /\ chat_pc = "done"
              /\ SubSeq(sse, 1, Len(sse) - 1) = EventsOf(emitted)
              /\ StreamRejected => emitted = <<OUT_OF_SCOPE_RESPONSE>>
              /\ StreamBroken =>
                    emitted = ProviderDeltas \o << <<"\n", "\n">> \o HAVING_TROUBLE >>
        /\ ~DoneSent => ENABLED ChatNext

\* C21: a streamed response ends with exactly one [DONE] event, sent after
\* all content events and followed by nothing, on every path: after a scope
\* rejection the canned out-of-scope message is the only content event, and
\* after a broken provider stream the chunks already sent are followed by
\* the one apology chunk; until [DONE] is sent the response can go on.
C21_StreamEndsWithOneDone ==
    /\ []StreamEndsInOrder
    /\ [][~DoneSent]_vars

\* A stream that broke after one delta: the delta, the apology, [DONE].
C21_Witness ==
    /\ StreamBroken
    /\ DoneSent
    /\ sse = <<ContentEvent(Chars("Try")),
               ContentEvent(<<"\n", "\n">> \o HAVING_TROUBLE), DONE>>

\* A stream rejected at a scope gate: the canned message, [DONE].
C21_WitnessRejected ==
    /\ StreamRejected
    /\ sse = <<ContentEvent(OUT_OF_SCOPE_RESPONSE), DONE>>

(***************************************************************************)
(* Properties of prompt assembly                                           *)
(***************************************************************************)
\* The state whose clause the priority rule selects.
HighestPriorityState(args) ==
    IF args.provenance_state \in {"SUSPECTED_PASTE", "SPAMMING"}
    THEN args.provenance_state
    ELSE IF args.iteration_state = "RAPID_GUESSING"
    THEN args.iteration_state
    ELSE args.cognitive_state

\* C22: whenever at least one behavioral state is supplied,
\* build_socratic_prompt appends exactly one tail clause, that of the
\* highest-priority state present: provenance SUSPECTED_PASTE or SPAMMING,
\* else iteration RAPID_GUESSING, else the supplied cognitive state.
C22_OneTailClauseByPriority ==
    (/\ returned # None
     /\ call.fn = "build_socratic_prompt"
     /\ \/ call.args.cognitive_state # Absent
        \/ call.args.iteration_state # Absent
        \/ call.args.provenance_state # Absent)
        => /\ returned[1].system.adjustment # Absent
           /\ returned[1].system.adjustment = HighestPriorityState(call.args)

(***************************************************************************)
(* Properties of the scope policy                                          *)
(***************************************************************************)
HitsOutOfScope(q) == \E pat \in OUT_OF_SCOPE_PATTERNS : Search(pat, q)
HitsSolutionSeeking(q) == \E pat \in SOLUTION_SEEKING_PATTERNS : Search(pat, q)
HasLearningKeyword(q) == \E keyword \in LEARNING_KEYWORDS : Contains(Lower(q), keyword)

\* C23: quick_filter classifies by strict precedence: an out-of-scope hit
\* gives (false, OUT_OF_SCOPE_DOMAIN) whatever else the query hits;
\* otherwise a solution-seeking hit gives (true, BORDERLINE_SOLUTION_SEEKING);
\* otherwise a learning keyword gives (true, LEARNING_ORIENTED); otherwise
\* (true, NEEDS_LLM_VALIDATION).  is_allowed is false only with
\* OUT_OF_SCOPE_DOMAIN.
C23_QuickFilterPrecedence ==
    (returned # None /\ call.fn = "quick_filter") =>
        LET q == call.args
            r == returned[1]
        IN  /\ HitsOutOfScope(q) =>
                  r = [is_allowed |-> FALSE, reason |-> "OUT_OF_SCOPE_DOMAIN"]
            /\ (~HitsOutOfScope(q) /\ HitsSolutionSeeking(q)) =>
                  r = [is_allowed |-> TRUE, reason |-> "BORDERLINE_SOLUTION_SEEKING"]
            /\ (~HitsOutOfScope(q) /\ ~HitsSolutionSeeking(q) /\ HasLearningKeyword(q)) =>
                  r = [is_allowed |-> TRUE, reason |-> "LEARNING_ORIENTED"]
            /\ (~HitsOutOfScope(q) /\ ~HitsSolutionSeeking(q) /\ ~HasLearningKeyword(q)) =>
                  r = [is_allowed |-> TRUE, reason |-> "NEEDS_LLM_VALIDATION"]
            /\ ~r.is_allowed <=> r.reason = "OUT_OF_SCOPE_DOMAIN"

\* The weather question followed by a request for the answer hits all
\* three lists and is rejected.
C23_Witness ==
    /\ returned # None
    /\ call = [fn |-> "quick_filter",
               args |-> Chars("what's the weather today? give me the answer")]
    /\ HitsOutOfScope(call.args)
    /\ HitsSolutionSeeking(call.args)
    /\ HasLearningKeyword(call.args)
    /\ returned[1] = [is_allowed |-> FALSE, reason |-> "OUT_OF_SCOPE_DOMAIN"]

(***************************************************************************)
(* Properties of the three logic trees of analyze                          *)
(***************************************************************************)
\* C24: the iteration state is a function of (interval < 10 s, semantic
\* change, last run errored) alone: fast without semantic change, or fast
\* after an error, is RAPID_GUESSING; fast with semantic change and no error
\* is MICRO_ITERATION; not fast is DELIBERATE_DEBUGGING with a semantic
\* change and VERIFICATION_RUN without; exactly 10 s is not fast.
C24_IterationByIntervalChangeError ==
    insights # None =>
        LET fast == metrics.last_run_interval_seconds < 10
            change == metrics.is_semantic_change
            errored == metrics.last_run_was_error
        IN  insights[1].iteration_state =
                CASE fast /\ ~change -> "RAPID_GUESSING"
                  [] fast /\ change /\ errored -> "RAPID_GUESSING"
                  [] fast /\ change /\ ~errored -> "MICRO_ITERATION"
                  [] ~fast /\ change -> "DELIBERATE_DEBUGGING"
                  [] ~fast /\ ~change -> "VERIFICATION_RUN"

\* A run exactly 10 s after the last one, with a semantic change after an
\* error: deliberate debugging.
C24_Witness ==
    /\ insights # None
    /\ metrics.last_run_interval_seconds = 10
    /\ metrics.is_semantic_change
    /\ metrics.last_run_was_error
    /\ insights[1].iteration_state = "DELIBERATE_DEBUGGING"

\* C26: both documented idle thresholds are applied: a current idle period
\* below 30 s is ACTIVE, one of 30-120 s in a focused window after an error
\* is REFLECTIVE_PAUSE, and any above 120 s is DISENGAGEMENT.
C26_IdleThresholds ==
    insights # None =>
        LET idle == metrics.current_idle_duration
        IN  /\ idle < REFLECTIVE_PAUSE_MIN => insights[1].cognitive_state = "ACTIVE"
            /\ (/\ idle > REFLECTIVE_PAUSE_MIN
                /\ idle <= DISENGAGEMENT_THRESHOLD
                /\ metrics.is_window_focused
                /\ metrics.last_run_was_error)
                  => insights[1].cognitive_state = "REFLECTIVE_PAUSE"
            /\ idle > DISENGAGEMENT_THRESHOLD
                  => insights[1].cognitive_state = "DISENGAGEMENT"

\* C27: a last edit of at most 30 characters always leaves the provenance
\* at INCREMENTAL_EDIT, whatever the other fields are.
C27_SmallEditIsIncremental ==
    (insights # None /\ metrics.last_edit_size_chars <= 30)
        => insights[1].provenance_state = "INCREMENTAL_EDIT"

\* C28: whenever analyze returns integrity_penalty = 0.5, the CES computed
\* from it is at most 0.2 and the session is classified neither High
\* Engagement nor Moderate Engagement.
C28_PastePenaltyCapsCes ==
    (ces_result # None /\ insights[1].integrity_penalty = R(5, 10)) =>
        /\ RLe(ces_result[1].ces, R(2, 10))
        /\ ces_result[1].classification
               \notin {"High Engagement", "Moderate Engagement"}

\* A penalised session typing at the top of the scale with runs.
C28_Witness ==
    /\ ces_result # None
    /\ insights[1].integrity_penalty = R(5, 10)
    /\ RLe(MAX_KPM, insights[1].effective_kpm)
    /\ RLt(Zero, insights[1].effective_ad)
    /\ RLt(Zero, ces_result[1].ces)

(***************************************************************************)
(* Properties of the test runner                                           *)
(***************************************************************************)
\* execute_with_tests is at work on a non-empty list, or has returned from
\* one.
TestingCases == test_run.pc # "idle" /\ test_run.test_cases # <<>>

\* Where the loop stands: the cases before i have one record each, in list
\* order and numbered from 1; the run in progress is that of case i, on the
\* submitted code with that case's input; the call returns only after the
\* last case.
CasesRunInOrder ==
    TestingCases =>
        LET cases == test_run.test_cases
            records == test_run.test_results
        IN  /\ Len(records) = test_run.i - 1
            /\ \A k \in 1..Len(records) :
                  /\ records[k].test_number = k
                  /\ records[k].input = cases[k].input
            /\ test_run.pc = "case_run" =>
                  /\ test_run.i \in 1..Len(cases)
                  /\ execution.pc # "idle"
                  /\ execution.program = test_run.program
                  /\ execution.stdin = cases[test_run.i].input
            /\ test_run.pc = "returned" =>
                  /\ Len(records) = Len(cases)
                  /\ test_run.result[1].test_results = records

\* A step of the loop: the run of case i has returned, and exactly one
\* record is appended for it, whose passed flag is decided by that run.
CaseRecordedOnce ==
    (TestingCases /\ test_run' # test_run) =>
        LET k == test_run.i
            run == execution.result[1]
            records == test_run'.test_results
        IN  /\ test_run.pc = "case_run"
            /\ execution.pc = "returned"
            /\ test_run'.i = k + 1
            /\ SubSeq(records, 1, k - 1) = test_run.test_results
            /\ Len(records) = k
            /\ records[k].passed <=>
                  /\ run.status = "success"
                  /\ Strip(run.output) = Strip(test_run.test_cases[k].expected_output)

\* C25: for a non-empty list execute_with_tests runs the code once per
\* case, in list order, with the case's input as stdin, and goes on after a
\* failing case; test_results has one record per case, numbered by the
\* case's position, and passed is true exactly when that run's status is
\* success and its stripped output equals the stripped expected output.
C25_OneRunAndRecordPerCase ==
    /\ []CasesRunInOrder
    /\ [][CaseRecordedOnce]_vars

\* Two cases were run although the first one failed; the second passed.
C25_Witness ==
    /\ test_run.pc = "returned"
    /\ Len(test_run.test_cases) = 2
    /\ Len(test_run.test_results) = 2
    /\ ~test_run.test_results[1].passed
    /\ test_run.test_results[2].passed
    /\ test_run.test_results[2].test_number = 2

(***************************************************************************)
(* The telemetry response read by the chat side                            *)
(***************************************************************************)
\* C29: should_intervene, given the cognitive_state and iteration_state
\* strings of the telemetry response, answers true exactly when the fusion
\* engine classified the session built from the request as PASSIVE_IDLE or
\* DISENGAGEMENT, or as RAPID_GUESSING or MICRO_ITERATION.
C29_ResponseLabelsDriveIntervention ==
    telemetry_response # None =>
        LET r == telemetry_response[1]
            fusion_insights == analyze(RequestMetrics(metrics))
        IN  should_intervene(r.cognitive_state, r.iteration_state)
                <=> \/ fusion_insights.cognitive_state \in {"PASSIVE_IDLE", "DISENGAGEMENT"}
                    \/ fusion_insights.iteration_state \in {"RAPID_GUESSING", "MICRO_ITERATION"}

(***************************************************************************)
(* Properties of hint generation                                           *)
(***************************************************************************)
\* The scope gates never send a hint query to the validator.
HintSkipsValidator == chat_pc # "validating"

\* C30: the query generate_hint builds passes the scope gates, so the
\* message get_hint returns is never the canned out-of-scope response.
C30_HintIsNeverOutOfScope ==
    /\ chat_pc \notin {"idle", "new"} => filter_reason # "OUT_OF_SCOPE_DOMAIN"
    /\ returned # None =>
          /\ returned[1].is_allowed
          /\ returned[1].intervention_triggered
          /\ returned[1].message # Some(OUT_OF_SCOPE_RESPONSE)

\* get_hint has answered with the out-of-scope text, flagged as allowed.
HintReturnsOutOfScope ==
    /\ returned # None
    /\ returned[1].is_allowed
    /\ returned[1].message = Some(OUT_OF_SCOPE_RESPONSE)

====
